---- MODULE Spec2Model ----
(***************************************************************************)
(* The analytics / forecasting engine of analysis.py as a state machine.   *)
(*                                                                         *)
(* Representation                                                          *)
(*  - a table (DataFrame) is a sequence of row records, in row order;      *)
(*  - a cell is a record [k, v]: k is the kind of Python value held        *)
(*    ("none" for None/NaN, "num" for a number, "numstr" for a string that *)
(*    pd.to_numeric can coerce, "text" for any other string, "date" for a  *)
(*    parseable date, "nat" for NaT) and v its integer value;              *)
(*  - a text cell (wind, weather) is [isstr, s] with s a sequence of       *)
(*    one-character strings;                                               *)
(*  - every AQI quantity is fixed-point, in thousandths of an AQI unit, so *)
(*    that round(x, 2), round(x, 3) and round(x) are real roundings;       *)
(*  - a calendar date is its day number in 2024 (0 = Monday 2024-01-01).   *)
(***************************************************************************)
EXTENDS Integers, Sequences, FiniteSets, TLC

VARIABLES
    pc,             \* per invocation: the position in forecast_aqi_7_days
    df,             \* per invocation: the caller's table (argument df)
    horizon,        \* per invocation: argument horizon
    lags,           \* per invocation: argument lags
    quantiles,      \* per invocation: argument quantiles (percent, in call order)
    future_meteo_7d,\* per invocation: argument future_meteo_7d
    df_processed,   \* per invocation: local df_processed
    ds,             \* per invocation: local ds (the supervised table)
    models_q,       \* per invocation: local models_q (quantile -> fitted model)
    recent_aqi,     \* per invocation: local recent_aqi (the lag window)
    last_date,      \* per invocation: local last_date
    last_meteo,     \* per invocation: last_max_temp / last_min_temp / last_wind_speed
    step,           \* per invocation: the loop variable step (0 before the loop)
    row_feat,       \* per invocation: row_feat of the latest step
    preds,          \* per invocation: preds of the latest step
    forecast_list,  \* per invocation: local forecast_list
    result,         \* per invocation: the returned dict
    lgbm,           \* LightGBM as a fixed function: (fitted model, feature row) -> prediction
    fn_args,        \* argument of the pure function applied by the function-level specifications
    fn_ret,         \* its result
    db,             \* the MySQL database: one set or sequence of rows per table
    svc             \* the service layer: the call in progress and its locals

vars == <<pc, df, horizon, lags, quantiles, future_meteo_7d, df_processed, ds,
          models_q, recent_aqi, last_date, last_meteo, step, row_feat, preds,
          forecast_list, result, lgbm, fn_args, fn_ret, db, svc>>

(***************************************************************************)
(* Bounds of the model and constants of the program.                       *)
(***************************************************************************)
MaxLags == 2
MaxHorizon == 2
MaxAqi == 302
MaxSeries == 4
MaxRows == 3
MaxStr == 4

MinExtraDates == 30
ConfidenceScale == 120
RandomState == 42
MinGroupCount == 5
TempBins == 5
MinTrainRows == 30
TopWeatherCount == 6

Invocations == {1, 2}

Max(a, b) == IF a >= b THEN a ELSE b
Min(a, b) == IF a <= b THEN a ELSE b

(***************************************************************************)
(* Cells.                                                                  *)
(***************************************************************************)
None == [k |-> "none", v |-> 0]
Num(n) == [k |-> "num", v |-> n]
NumStr(n) == [k |-> "numstr", v |-> n]
Text == [k |-> "text", v |-> 0]
DateCell(d) == [k |-> "date", v |-> d]
NaT == [k |-> "nat", v |-> 0]
Str(s) == [isstr |-> TRUE, s |-> s]
NotStr == [isstr |-> FALSE, s |-> <<>>]

isna(c) == c.k \in {"none", "nat"}

\* pd.to_numeric(column, errors="coerce"), cell by cell
to_numeric(c) ==
    CASE c.k = "num" -> c
      [] c.k = "numstr" -> Num(c.v)
      [] OTHER -> None

\* pd.to_datetime(column, errors="coerce"), cell by cell
to_datetime(c) == IF c.k = "date" THEN c ELSE NaT

(***************************************************************************)
(* Strings.                                                                *)
(***************************************************************************)
Digits == <<"0", "1", "2", "3", "4", "5", "6", "7", "8", "9">>
IsDigit(ch) == \E j \in 1..Len(Digits) : Digits[j] = ch
DigitValue(ch) == (CHOOSE j \in 1..Len(Digits) : Digits[j] = ch) - 1
IsSpace(ch) == ch = " "
\* the one-character force unit suffix removed by direction.replace (written "ji" here)
UnitSuffix == "ji"
\* the two-character sentinel for a weather that is not a string (written in ASCII here)
UnknownWeather == <<"wei", "zhi">>

\* str.strip()
strip(s) ==
    LET keep == {j \in 1..Len(s) : ~IsSpace(s[j])}
    IN  IF keep = {} THEN <<>>
        ELSE LET lo == CHOOSE j \in keep : \A m \in keep : j <= m
                 hi == CHOOSE j \in keep : \A m \in keep : j >= m
             IN  SubSeq(s, lo, hi)

\* int(text) of a run of digits
RECURSIVE int(_)
int(run) ==
    IF run = <<>> THEN 0
    ELSE 10 * int(SubSeq(run, 1, Len(run) - 1)) + DigitValue(run[Len(run)])

FirstDigitRun_AllDigits(s) == SelectSeq(s, IsDigit)

\* re.search(r"(\d+)", s).group(1): the first maximal run of digits, <<>> when none
FirstDigitRun(s) ==
    LET ds0 == {j \in 1..Len(s) : IsDigit(s[j])}
    IN  IF ds0 = {} THEN <<>>
        ELSE LET lo == CHOOSE j \in ds0 : \A m \in ds0 : j <= m
                 ends == {j \in lo..Len(s) : \A m \in lo..j : IsDigit(s[m])}
                 hi == CHOOSE j \in ends : \A m \in ends : j >= m
             IN  SubSeq(s, lo, hi)

_extract_wind_speed_and_direction(wind_str) ==
    IF ~wind_str.isstr THEN [speed |-> None, direction |-> NotStr]
    ELSE LET noDigits == SelectSeq(wind_str.s, LAMBDA ch : ~IsDigit(ch))
             direction == strip(SelectSeq(noDigits, LAMBDA ch : ch # UnitSuffix))
             run == FirstDigitRun(wind_str.s)
         IN  [speed |-> IF run = <<>> THEN None ELSE Num(int(run)),
              direction |-> Str(direction)]

\* str(x).split("~")[0].strip() if isinstance(x, str) else the "unknown" sentinel
weather_simple_of(weather) ==
    IF ~weather.isstr THEN Str(UnknownWeather)
    ELSE LET cut == {j \in 1..Len(weather.s) : weather.s[j] = "~"}
             first == IF cut = {} THEN Len(weather.s) + 1
                      ELSE CHOOSE j \in cut : \A m \in cut : j <= m
         IN  Str(strip(SubSeq(weather.s, 1, first - 1)))

(***************************************************************************)
(* preprocess_data.                                                        *)
(***************************************************************************)
KeyColumnsPresent_AndWeather(r) ==
    ~isna(r.max_temp) /\ ~isna(r.min_temp) /\ ~isna(r.wind_speed) /\ ~isna(r.aqi)
    /\ r.weather.isstr

\* the rows dropna(subset=[...]) of lines 114 and 123 keeps
KeyColumnsPresent(r) ==
    ~isna(r.max_temp) /\ ~isna(r.min_temp) /\ ~isna(r.wind_speed) /\ ~isna(r.aqi)

WithDerived_WindOverwritten(r) ==
    LET w == _extract_wind_speed_and_direction(r.wind)
    IN  [date |-> r.date, max_temp |-> r.max_temp, min_temp |-> r.min_temp,
         weather |-> r.weather, wind |-> w.direction, aqi |-> r.aqi,
         wind_speed |-> w.speed, wind_direction |-> w.direction,
         weather_simple |-> weather_simple_of(r.weather)]

\* lines 103-111: the derived columns of one row
WithDerived(r) ==
    LET w == _extract_wind_speed_and_direction(r.wind)
    IN  [date |-> r.date, max_temp |-> r.max_temp, min_temp |-> r.min_temp,
         weather |-> r.weather, wind |-> r.wind, aqi |-> r.aqi,
         wind_speed |-> w.speed, wind_direction |-> w.direction,
         weather_simple |-> weather_simple_of(r.weather)]

\* lines 117-120: the numeric columns of one row coerced
Coerced(r) ==
    [r EXCEPT !.wind_speed = to_numeric(@), !.max_temp = to_numeric(@),
              !.min_temp = to_numeric(@), !.aqi = to_numeric(@)]

preprocess_data(t) ==
    LET derived == [j \in 1..Len(t) |-> WithDerived(t[j])]
        dropped1 == SelectSeq(derived, KeyColumnsPresent)
        coerced == [j \in 1..Len(dropped1) |-> Coerced(dropped1[j])]
        dropped2 == SelectSeq(coerced, KeyColumnsPresent)
    IN  [j \in 1..Len(dropped2) |-> [dropped2[j] EXCEPT !.date = to_datetime(@)]]

(***************************************************************************)
(* Dates, sorting and the supervised table (_build_supervised_dataset).    *)
(***************************************************************************)
\* Series.dt.dayofweek of a day number (0 = Monday)
dayofweek(d) == d % 7

\* Series.dt.month of a day number of 2024
MonthEnds == <<31, 60, 91, 121, 152, 182, 213, 244, 274, 305, 335>>
month(d) == 1 + Cardinality({j \in 1..Len(MonthEnds) : MonthEnds[j] <= d % 366})

\* the order of sort_values("date"): ascending, NaT last
DateBefore(a, b) == a.k = "date" /\ (b.k = "nat" \/ a.v < b.v)

\* DataFrame.sort_values("date"), rows of equal date kept in their row order
RECURSIVE sort_values_date(_)
sort_values_date(t) ==
    IF t = <<>> THEN <<>>
    ELSE LET rest == sort_values_date(Tail(t))
             before == Cardinality({j \in 1..Len(rest) : DateBefore(rest[j].date, Head(t).date)})
         IN  SubSeq(rest, 1, before) \o <<Head(t)>> \o SubSeq(rest, before + 1, Len(rest))

\* Series.nunique() of the date column: NaT is not counted
date_nunique(t) == Cardinality({t[j].date.v : j \in {m \in 1..Len(t) : t[m].date.k = "date"}})

\* Series.max() of the date column: NaT is skipped
date_max(t) ==
    LET dated == {t[j].date.v : j \in {m \in 1..Len(t) : t[m].date.k = "date"}}
    IN  CHOOSE d \in dated : \A e \in dated : d >= e

\* DataFrame.dropna() of line 318: a row is kept when no column of it is missing; the
\* columns that can be missing in a preprocessed, shifted row are date (NaT, and with it
\* dow and month), weather (None), the lags of the first rows and aqi_next of the last
SupervisedRowComplete(sorted, p, L) ==
    /\ p > L
    /\ p < Len(sorted)
    /\ ~isna(sorted[p].date)
    /\ sorted[p].weather.isstr

SupervisedRow_ByCalendarDay(sorted, p, L) ==
    [index |-> p - 1,
     date |-> sorted[p].date.v,
     aqi |-> sorted[p].aqi.v,
     aqi_lag |-> [j \in 1..L |->
                    LET day == {q \in 1..Len(sorted) :
                                   sorted[q].date = DateCell(sorted[p].date.v - j)}
                    IN  IF day = {} THEN 0 ELSE sorted[CHOOSE q \in day : TRUE].aqi.v],
     max_temp |-> sorted[p].max_temp.v,
     min_temp |-> sorted[p].min_temp.v,
     wind_speed |-> sorted[p].wind_speed.v,
     dow |-> dayofweek(sorted[p].date.v),
     month |-> month(sorted[p].date.v),
     aqi_next |-> sorted[p + 1].aqi.v]

\* one row of df2 before line 318; index is the label the row carries, here its place
\* in the sorted table
SupervisedRow(sorted, p, L) ==
    [index |-> p - 1,
     date |-> sorted[p].date.v,
     aqi |-> sorted[p].aqi.v,
     aqi_lag |-> [j \in 1..L |-> sorted[p - j].aqi.v],
     max_temp |-> sorted[p].max_temp.v,
     min_temp |-> sorted[p].min_temp.v,
     wind_speed |-> sorted[p].wind_speed.v,
     dow |-> dayofweek(sorted[p].date.v),
     month |-> month(sorted[p].date.v),
     aqi_next |-> sorted[p + 1].aqi.v]

\* DataFrame.reset_index(drop=True): the rows relabelled 0, 1, 2, ...
reset_index(rows) == [j \in 1..Len(rows) |-> [rows[j] EXCEPT !.index = j - 1]]

_build_supervised_dataset(t, L) ==
    LET sorted == sort_values_date(t)
        kept == SelectSeq([p \in 1..Len(sorted) |-> p],
                          LAMBDA p : SupervisedRowComplete(sorted, p, L))
    IN  reset_index([j \in 1..Len(kept) |-> SupervisedRow(sorted, kept[j], L)])

\* X = ds[feature_cols], y = ds["aqi_next"]
FeatureRow(r) ==
    [aqi_lag |-> r.aqi_lag, max_temp |-> r.max_temp, min_temp |-> r.min_temp,
     wind_speed |-> r.wind_speed, dow |-> r.dow, month |-> r.month]
FeatureTable(d) == [j \in 1..Len(d) |-> FeatureRow(d[j])]
LabelColumn(d) == [j \in 1..Len(d) |-> d[j].aqi_next]

(***************************************************************************)
(* Rounding, the AQI level and the confidence.                             *)
(***************************************************************************)
RoundHalfEven_HalfUp(x, unit) == (2 * x + unit) \div (2 * unit)

\* Python's round(): x / unit rounded to the nearest integer, a tie to the even one
RoundHalfEven(x, unit) ==
    LET q == x \div unit
        r == x % unit
    IN  CASE 2 * r < unit -> q
          [] 2 * r > unit -> q + 1
          [] OTHER -> IF q % 2 = 0 THEN q ELSE q + 1

\* round(p, 2) of a value in thousandths, in thousandths again
round2(x) == 10 * RoundHalfEven(x, 10)

\* the six categories in order, and the one for a missing value
Levels == <<"you", "liang", "qingdu", "zhongdu", "zhong4du", "yanzhong">>
Colors == <<"#4caf50", "#ffc107", "#ff9800", "#f44336", "#9c27b0", "#795548">>
LevelRecord(n) == [level |-> Levels[n], color |-> Colors[n], tip |-> n]
UnknownLevel == [level |-> "weizhi", color |-> "#9e9e9e", tip |-> 0]

_aqi_level_details_Exclusive(aqi) ==
    IF isna(aqi) THEN UnknownLevel
    ELSE LET rounded == RoundHalfEven(aqi.v, 1000)
         IN  CASE rounded < 50 -> LevelRecord(1)
               [] rounded >= 50 /\ rounded < 100 -> LevelRecord(2)
               [] rounded >= 100 /\ rounded < 150 -> LevelRecord(3)
               [] rounded >= 150 /\ rounded < 200 -> LevelRecord(4)
               [] rounded >= 200 /\ rounded < 300 -> LevelRecord(5)
               [] OTHER -> LevelRecord(6)

\* _aqi_level_details of a cell holding thousandths of an AQI unit
_aqi_level_details(aqi) ==
    IF isna(aqi) THEN UnknownLevel
    ELSE LET rounded == RoundHalfEven(aqi.v, 1000)
         IN  CASE rounded <= 50 -> LevelRecord(1)
               [] rounded > 50 /\ rounded <= 100 -> LevelRecord(2)
               [] rounded > 100 /\ rounded <= 150 -> LevelRecord(3)
               [] rounded > 150 /\ rounded <= 200 -> LevelRecord(4)
               [] rounded > 200 /\ rounded <= 300 -> LevelRecord(5)
               [] OTHER -> LevelRecord(6)

ConfidenceOf_NoFloor(p10, p90) ==
    Min(ConfidenceScale * 1000, ConfidenceScale * 1000 - Max(0, p90 - p10))

\* lines 442-443: width and confidence; the confidence is a fraction of
\* ConfidenceScale * 1000 (so ConfidenceScale * 1000 stands for 1.0)
ConfidenceOf(p10, p90) ==
    LET width == Max(0, p90 - p10)
        one == ConfidenceScale * 1000
    IN  Max(0, Min(one, one - width))

\* round(float(confidence), 3), in thousandths
round3_confidence(c) == RoundHalfEven(c, ConfidenceScale)

(***************************************************************************)
(* The inputs the specifications draw from.                                *)
(***************************************************************************)
\* one well-formed observation of day d
BaseRow(d) ==
    [date |-> DateCell(d),
     max_temp |-> Num(20 + (d % 5)),
     min_temp |-> IF d % 4 = 0 THEN NumStr(10 + (d % 3)) ELSE Num(10 + (d % 3)),
     weather |-> Str(<<"Q", "~", "D">>),
     wind |-> Str(<<"N", "F", Digits[(d % 3) + 2], "ji">>),
     aqi |-> Num((50 + d) * 1000)]

Clean(n) == [j \in 1..n |-> BaseRow(j)]
Reverse(t) == [j \in 1..Len(t) |-> t[Len(t) + 1 - j]]
\* a row whose date cannot be parsed, otherwise usable
UndatedRow == [BaseRow(0) EXCEPT !.date = Text, !.aqi = Num(300000)]
\* a second row of day d
DupRow(d) == [BaseRow(d) EXCEPT !.aqi = Num(150000)]
\* rows of later days that preprocess_data drops
UnusableRows(n) ==
    <<[BaseRow(n + 1) EXCEPT !.aqi = None],
      [BaseRow(n + 2) EXCEPT !.wind = Str(<<"N", "F">>)],
      [BaseRow(n + 3) EXCEPT !.max_temp = Text],
      [BaseRow(n + 4) EXCEPT !.wind = NotStr]>>
NoWeather(t) == [j \in 1..Len(t) |-> [t[j] EXCEPT !.weather = NotStr]]

Tables(L) ==
    LET short == Clean(L + MinExtraDates - 1)
        enough == Clean(L + MinExtraDates)
    IN  {<<>>, short, enough, Reverse(enough \o UnusableRows(L + MinExtraDates)),
         <<UndatedRow>> \o short, <<UndatedRow>> \o enough,
         short \o <<DupRow(3)>>, enough \o <<DupRow(L + MinExtraDates)>>,
         NoWeather(enough)}

\* future_meteo_7d: None, or a list of dicts
NoFuture == [given |-> FALSE, list |-> <<>>]
FutureList(l) == [given |-> TRUE, list |-> l]
FullMeteo(j) == [max_temp |-> 30 + j, min_temp |-> 5 + j, wind_speed |-> 7 + j]
PartialMeteo(j) == [max_temp |-> 30 + j]
Futures(h) ==
    {NoFuture, FutureList(<<>>), FutureList(<<FullMeteo(1)>>),
     FutureList([j \in 1..h |-> IF j = 1 THEN PartialMeteo(j) ELSE FullMeteo(j)])}

\* the quantile tuples, in percent
QuantileLists == {<<10, 50, 90>>, <<90, 10>>, <<30>>}

\* the values a fitted model may predict, in thousandths
PredValues == {50500, 80125}

(***************************************************************************)
(* LightGBM.                                                               *)
(***************************************************************************)
FitSeed_Unseeded(i) == RandomState + i

\* random_state of the parameters of line 383
FitSeed(i) == RandomState

\* lgb.LGBMRegressor(**params).fit(X, y): what the fitted model is a function of
LGBMFit(q, seed, X, y) == [alpha |-> q, random_state |-> seed, X |-> X, y |-> y]

Unset == [unset |-> TRUE]
\* the database and the service layer while only the engine is exercised
NoDatabase == [tables |-> "not used"]
NoService == [call |-> "none"]
NoArgs == [fn |-> "none"]

(***************************************************************************)
(* forecast_aqi_7_days, one action per step of its code.                   *)
(***************************************************************************)
CallerTableAfter_InPlace(t, worked) == worked

\* df.copy() of lines 101 and 304: every write of the function goes to the copy
\* (`worked`), the object the caller holds keeps what it held
CallerTableAfter(t, worked) == t

\* line 350
Preprocess(i) ==
    /\ pc[i] = "call"
    /\ df_processed' = [df_processed EXCEPT ![i] = preprocess_data(df[i])]
    /\ df' = [df EXCEPT ![i] = CallerTableAfter(@, preprocess_data(@))]
    /\ pc' = [pc EXCEPT ![i] = "check"]
    /\ UNCHANGED <<horizon, lags, quantiles, future_meteo_7d, ds, models_q,
                   recent_aqi, last_date, last_meteo, step, row_feat, preds,
                   forecast_list, result, lgbm, fn_args, fn_ret, db, svc>>

TooFewDates_CountsRows(t, L) == Len(t) < L + MinExtraDates

\* the test of line 353
TooFewDates(t, L) == date_nunique(t) < L + MinExtraDates

\* lines 353-354
ReturnInsufficient(i) ==
    /\ pc[i] = "check"
    /\ TooFewDates(df_processed[i], lags[i])
    /\ result' = [result EXCEPT ![i] =
                    [error |-> [msg |-> "insufficient dates",
                                min_days |-> lags[i] + MinExtraDates]]]
    /\ pc' = [pc EXCEPT ![i] = "done"]
    /\ UNCHANGED <<df, horizon, lags, quantiles, future_meteo_7d, df_processed, ds,
                   models_q, recent_aqi, last_date, last_meteo, step, row_feat,
                   preds, forecast_list, lgbm, fn_args, fn_ret, db, svc>>

\* lines 353, 357-368
BuildSupervised(i) ==
    /\ pc[i] = "check"
    /\ ~TooFewDates(df_processed[i], lags[i])
    /\ ds' = [ds EXCEPT ![i] = _build_supervised_dataset(df_processed[i], lags[i])]
    /\ df_processed' = [df_processed EXCEPT ![i] = CallerTableAfter(@, sort_values_date(@))]
    /\ pc' = [pc EXCEPT ![i] = "fit"]
    /\ UNCHANGED <<df, horizon, lags, quantiles, future_meteo_7d,
                   models_q, recent_aqi, last_date, last_meteo, step, row_feat,
                   preds, forecast_list, result, lgbm, fn_args, fn_ret, db, svc>>

\* lines 372-387, one iteration: the quantiles fitted so far are those of models_q
NextQuantile(i) ==
    LET todo == {j \in 1..Len(quantiles[i]) : quantiles[i][j] \notin DOMAIN models_q[i]}
    IN  CHOOSE j \in todo : \A m \in todo : j <= m

FitModel(i) ==
    /\ pc[i] = "fit"
    /\ \E j \in 1..Len(quantiles[i]) : quantiles[i][j] \notin DOMAIN models_q[i]
    /\ Len(ds[i]) > 0
    /\ LET q == quantiles[i][NextQuantile(i)]
           model == LGBMFit(q, FitSeed(i), FeatureTable(ds[i]), LabelColumn(ds[i]))
       IN  models_q' = [models_q EXCEPT ![i] = (q :> model) @@ @]
    /\ UNCHANGED <<pc, df, horizon, lags, quantiles, future_meteo_7d, df_processed, ds,
                   recent_aqi, last_date, last_meteo, step, row_feat, preds,
                   forecast_list, result, lgbm, fn_args, fn_ret, db, svc>>

\* model.fit(X, y) of line 386 on a table without rows raises (and so would
\* ds.iloc[-1] of line 390): the call ends in an exception
FitRaises(i) ==
    /\ pc[i] = "fit"
    /\ Len(ds[i]) = 0
    /\ pc' = [pc EXCEPT ![i] = "raised"]
    /\ UNCHANGED <<df, horizon, lags, quantiles, future_meteo_7d, df_processed, ds,
                   models_q, recent_aqi, last_date, last_meteo, step, row_feat,
                   preds, forecast_list, result, lgbm, fn_args, fn_ret, db, svc>>

\* df_processed.sort_values("date")["aqi"].tail(lags).tolist()
RecentAqi(t, L) ==
    LET sorted == sort_values_date(t)
    IN  [j \in 1..Min(L, Len(sorted)) |-> sorted[Len(sorted) - Min(L, Len(sorted)) + j].aqi.v]

\* df_processed.sort_values("date").iloc[-1]
LastRow(t) == sort_values_date(t)[Len(t)]

\* lines 390-405
PrepareWindow(i) ==
    /\ pc[i] = "fit"
    /\ \A j \in 1..Len(quantiles[i]) : quantiles[i][j] \in DOMAIN models_q[i]
    /\ Len(ds[i]) > 0
    /\ recent_aqi' = [recent_aqi EXCEPT ![i] = RecentAqi(df_processed[i], lags[i])]
    /\ last_date' = [last_date EXCEPT ![i] = date_max(df_processed[i])]
    /\ last_meteo' = [last_meteo EXCEPT ![i] =
                        [max_temp |-> LastRow(df_processed[i]).max_temp.v,
                         min_temp |-> LastRow(df_processed[i]).min_temp.v,
                         wind_speed |-> LastRow(df_processed[i]).wind_speed.v]]
    /\ pc' = [pc EXCEPT ![i] = "loop"]
    /\ UNCHANGED <<df, horizon, lags, quantiles, future_meteo_7d, df_processed, ds,
                   models_q, step, row_feat, preds, forecast_list, result, lgbm,
                   fn_args, fn_ret, db, svc>>

\* lines 412-413: aqi_lag_j = recent_aqi[-j]
LagBlock(window, L) == [j \in 1..L |-> window[Len(window) + 1 - j]]

\* met.get(key, default)
MeteoGet(met, key, default) == IF key \in DOMAIN met THEN met[key] ELSE default

\* lines 415-423
MeteoAt(future, s, last) ==
    IF future.given /\ Len(future.list) > 0 /\ Len(future.list) >= s
    THEN LET met == future.list[s]
         IN  [max_temp |-> MeteoGet(met, "max_temp", last.max_temp),
              min_temp |-> MeteoGet(met, "min_temp", last.min_temp),
              wind_speed |-> MeteoGet(met, "wind_speed", last.wind_speed)]
    ELSE last

\* lines 411-428: row_feat / X_pred of step s
RowFeat(window, L, future, s, last, target_date) ==
    LET met == MeteoAt(future, s, last)
    IN  [aqi_lag |-> LagBlock(window, L),
         max_temp |-> met.max_temp, min_temp |-> met.min_temp,
         wind_speed |-> met.wind_speed,
         dow |-> dayofweek(target_date), month |-> month(target_date)]

PointForecast_LastQuantile(pr, qs) == IF 50 \in DOMAIN pr THEN pr[50] ELSE pr[qs[Len(qs)]]

\* line 434: preds.get(0.5, list(preds.values())[0])
PointForecast(pr, qs) == IF 50 \in DOMAIN pr THEN pr[50] ELSE pr[qs[1]]

\* preds.get(q, default)
PredGet(pr, q, default) == IF q \in DOMAIN pr THEN pr[q] ELSE default

Fed_Nothing(p50) == 0

\* the value appended to recent_aqi at line 437
Fed(p50) == p50

\* lines 445-454
ForecastPoint(target_date, pr, qs) ==
    LET p50 == PointForecast(pr, qs)
        p10 == PredGet(pr, 10, p50)
        p90 == PredGet(pr, 90, p50)
        details == _aqi_level_details(Num(p50))
    IN  [date |-> target_date,
         aqi_p10 |-> round2(p10), aqi_p50 |-> round2(p50), aqi_p90 |-> round2(p90),
         confidence |-> round3_confidence(ConfidenceOf(p10, p90)),
         level |-> details.level, color |-> details.color, tip |-> details.tip]

TargetDate_FromLastDay(last, s) == last + s - 1

\* line 408
TargetDate(last, s) == last + s

LagWindow_Shared(i) ==
    IF Len(recent_aqi[1]) >= lags[i] THEN recent_aqi[1] ELSE recent_aqi[i]

\* recent_aqi is a list created by the call at line 393: the window an invocation
\* reads at line 413 is its own
LagWindow(i) == recent_aqi[i]

\* lines 407-454, one iteration of the loop. models_q[q].predict(X_pred) is the value
\* of the function lgbm at (model, X_pred): a value not asked for before is any of
\* PredValues, and the same question always gets the same answer.
ForecastStep(i) ==
    /\ pc[i] = "loop"
    /\ step[i] < horizon[i]
    /\ LET s == step[i] + 1
           target_date == TargetDate(last_date[i], s)
           x == RowFeat(LagWindow(i), lags[i], future_meteo_7d[i], s, last_meteo[i],
                        target_date)
           qset == {quantiles[i][j] : j \in 1..Len(quantiles[i])}
       IN  \E pr \in [qset -> PredValues] :
             /\ \A q \in qset : <<models_q[i][q], x>> \in DOMAIN lgbm
                                   => pr[q] = lgbm[<<models_q[i][q], x>>]
             /\ lgbm' = [key \in DOMAIN lgbm \cup {<<models_q[i][q], x>> : q \in qset} |->
                           IF key \in DOMAIN lgbm THEN lgbm[key] ELSE pr[key[1].alpha]]
             /\ row_feat' = [row_feat EXCEPT ![i] = x]
             /\ preds' = [preds EXCEPT ![i] = pr]
             /\ recent_aqi' = [recent_aqi EXCEPT ![i] =
                                 Append(@, Fed(PointForecast(pr, quantiles[i])))]
             /\ forecast_list' = [forecast_list EXCEPT ![i] =
                                    Append(@, ForecastPoint(target_date, pr, quantiles[i]))]
             /\ step' = [step EXCEPT ![i] = s]
    /\ UNCHANGED <<pc, df, horizon, lags, quantiles, future_meteo_7d, df_processed, ds,
                   models_q, last_date, last_meteo, result, fn_args, fn_ret, db, svc>>

\* lines 456-464
ReturnForecast(i) ==
    /\ pc[i] = "loop"
    /\ step[i] >= horizon[i]
    /\ result' = [result EXCEPT ![i] =
                    [forecast |-> forecast_list[i],
                     model_info |-> [train_samples |-> Len(ds[i]), lags |-> lags[i],
                                     quantiles |-> quantiles[i],
                                     note |-> "persistence"]]]
    /\ pc' = [pc EXCEPT ![i] = "done"]
    /\ UNCHANGED <<df, horizon, lags, quantiles, future_meteo_7d, df_processed, ds,
                   models_q, recent_aqi, last_date, last_meteo, step, row_feat,
                   preds, forecast_list, lgbm, fn_args, fn_ret, db, svc>>

(***************************************************************************)
(* The specifications.                                                     *)
(***************************************************************************)
\* the invocations of `callers` are called with (t, L, h, qs, f); the others never run
Start(callers, t, L, h, qs, f) ==
    /\ pc = [i \in Invocations |-> IF i \in callers THEN "call" ELSE "idle"]
    /\ df = [i \in Invocations |-> IF i \in callers THEN t ELSE <<>>]
    /\ lags = [i \in Invocations |-> L]
    /\ horizon = [i \in Invocations |-> h]
    /\ quantiles = [i \in Invocations |-> qs]
    /\ future_meteo_7d = [i \in Invocations |-> f]
    /\ df_processed = [i \in Invocations |-> <<>>]
    /\ ds = [i \in Invocations |-> <<>>]
    /\ models_q = [i \in Invocations |-> <<>>]
    /\ recent_aqi = [i \in Invocations |-> <<>>]
    /\ last_date = [i \in Invocations |-> 0]
    /\ last_meteo = [i \in Invocations |-> Unset]
    /\ step = [i \in Invocations |-> 0]
    /\ row_feat = [i \in Invocations |-> Unset]
    /\ preds = [i \in Invocations |-> <<>>]
    /\ forecast_list = [i \in Invocations |-> <<>>]
    /\ result = [i \in Invocations |-> Unset]
    /\ lgbm = <<>>

\* one call of forecast_aqi_7_days
Init ==
    \E L \in 1..MaxLags, h \in 1..MaxHorizon, qs \in QuantileLists :
        \E t \in Tables(L), f \in Futures(h) :
            Start({1}, t, L, h, qs, f) /\ fn_args = NoArgs /\ fn_ret = Unset /\ db = NoDatabase /\ svc = NoService

Next ==
    \/ \E i \in Invocations : Preprocess(i)
    \/ \E i \in Invocations : ReturnInsufficient(i)
    \/ \E i \in Invocations : BuildSupervised(i)
    \/ \E i \in Invocations : FitModel(i)
    \/ \E i \in Invocations : FitRaises(i)
    \/ \E i \in Invocations : PrepareWindow(i)
    \/ \E i \in Invocations : ForecastStep(i)
    \/ \E i \in Invocations : ReturnForecast(i)

Spec == Init /\ [][Next]_vars

\* two calls of forecast_aqi_7_days with the same arguments, their steps interleaved
InitTwice ==
    \E L \in 1..MaxLags, h \in 1..MaxHorizon :
        \E t \in {Clean(L + MinExtraDates - 1), Clean(L + MinExtraDates),
                  NoWeather(Clean(L + MinExtraDates))},
           f \in {NoFuture, FutureList(<<FullMeteo(1)>>)} :
            Start({1, 2}, t, L, h, <<90, 10>>, f) /\ fn_args = NoArgs /\ fn_ret = Unset /\ db = NoDatabase /\ svc = NoService

SpecTwice == InitTwice /\ [][Next]_vars

\* two calls of forecast_aqi_7_days, each with its own table and arguments, their
\* steps interleaved in every possible way (one after the other included)
InitIsolated ==
    \E L \in {MaxLags} :
        \E t1 \in {Clean(L + MinExtraDates), Clean(L + MinExtraDates - 1)},
           t2 \in {Clean(1 + MinExtraDates + 1), NoWeather(Clean(1 + MinExtraDates)),
                   <<UndatedRow>> \o Clean(1 + MinExtraDates)} :
            /\ pc = [i \in Invocations |-> "call"]
            /\ df = <<t1, t2>>
            /\ lags = <<L, 1>>
            /\ horizon = <<MaxHorizon, 1>>
            /\ quantiles = << <<90, 10>>, <<30>> >>
            /\ future_meteo_7d = <<FutureList(<<FullMeteo(1)>>), NoFuture>>
            /\ df_processed = [i \in Invocations |-> <<>>]
            /\ ds = [i \in Invocations |-> <<>>]
            /\ models_q = [i \in Invocations |-> <<>>]
            /\ recent_aqi = [i \in Invocations |-> <<>>]
            /\ last_date = [i \in Invocations |-> 0]
            /\ last_meteo = [i \in Invocations |-> Unset]
            /\ step = [i \in Invocations |-> 0]
            /\ row_feat = [i \in Invocations |-> Unset]
            /\ preds = [i \in Invocations |-> <<>>]
            /\ forecast_list = [i \in Invocations |-> <<>>]
            /\ result = [i \in Invocations |-> Unset]
            /\ lgbm = <<>>
            /\ fn_args = NoArgs
            /\ fn_ret = Unset /\ db = NoDatabase /\ svc = NoService

SpecIsolated == InitIsolated /\ [][Next]_vars

(***************************************************************************)
(* Function-level specifications: one application of a pure piece of code. *)
(***************************************************************************)
\* no invocation of the engine runs
NoCalls == Start({}, <<>>, 1, 1, <<50>>, NoFuture)

\* lines 434-454 applied to the predictions of one step
ConfidenceGrid == {0, 1, 125, 60000, 119999, 120000, 120001, 250000}
InitConfidence ==
    \E qs \in {<<10, 90>>, <<50>>} :
        \E pr \in [{qs[j] : j \in 1..Len(qs)} -> ConfidenceGrid] :
            /\ NoCalls
            /\ fn_args = [fn |-> "forecast point", preds |-> pr, quantiles |-> qs]
            /\ fn_ret = Unset /\ db = NoDatabase /\ svc = NoService

ApplyForecastPoint ==
    /\ fn_args.fn = "forecast point"
    /\ fn_ret = Unset
    /\ LET p50 == PointForecast(fn_args.preds, fn_args.quantiles)
       IN  fn_ret' = [confidence |-> ConfidenceOf(PredGet(fn_args.preds, 10, p50),
                                                  PredGet(fn_args.preds, 90, p50)),
                      point |-> ForecastPoint(1, fn_args.preds, fn_args.quantiles)]
    /\ UNCHANGED <<pc, df, horizon, lags, quantiles, future_meteo_7d, df_processed, ds,
                   models_q, recent_aqi, last_date, last_meteo, step, row_feat,
                   preds, forecast_list, result, lgbm, fn_args, db, svc>>

SpecConfidence == InitConfidence /\ [][ApplyForecastPoint]_vars

\* _aqi_level_details applied to one value: None, or a number of thousandths around
\* an integer from -2 to MaxAqi
LevelInputs ==
    {None} \cup {Num(1000 * v + f) : v \in (0 - 2)..MaxAqi, f \in {0, 499, 500, 501}}
InitLevel ==
    \E a \in LevelInputs :
        /\ NoCalls
        /\ fn_args = [fn |-> "_aqi_level_details", aqi |-> a]
        /\ fn_ret = Unset /\ db = NoDatabase /\ svc = NoService

ApplyLevel ==
    /\ fn_args.fn = "_aqi_level_details"
    /\ fn_ret = Unset
    /\ fn_ret' = _aqi_level_details(fn_args.aqi)
    /\ UNCHANGED <<pc, df, horizon, lags, quantiles, future_meteo_7d, df_processed, ds,
                   models_q, recent_aqi, last_date, last_meteo, step, row_feat,
                   preds, forecast_list, result, lgbm, fn_args, db, svc>>

SpecLevel == InitLevel /\ [][ApplyLevel]_vars

(***************************************************************************)
(* The engine's functions called one at a time: fn_args holds the function *)
(* and the caller's arguments, fn_ret what the call returned.              *)
(***************************************************************************)
\* a series of up to MaxSeries observations: the date of each is day 1, 2 or 4 or
\* cannot be parsed, the second may lack its weather, the AQI are all different
DateChoices == {DateCell(1), DateCell(2), DateCell(4), Text}
SeriesRow(j, dc, w) ==
    [BaseRow(j) EXCEPT !.date = dc, !.weather = w, !.aqi = Num((100 + j) * 1000)]
SeriesTables ==
    UNION {{[j \in 1..n |-> SeriesRow(j, dates[j],
                                       IF j = nw THEN NotStr ELSE BaseRow(j).weather)] :
               dates \in [1..n -> DateChoices], nw \in {0, 2}} : n \in 0..MaxSeries}

\* _build_supervised_dataset called on a preprocessed table
InitBuildSupervised ==
    \E t \in SeriesTables, L \in 1..MaxLags :
        /\ NoCalls
        /\ fn_args = [fn |-> "_build_supervised_dataset", df |-> preprocess_data(t),
                      lags |-> L]
        /\ fn_ret = Unset /\ db = NoDatabase /\ svc = NoService

ApplyBuildSupervised ==
    /\ fn_args.fn = "_build_supervised_dataset"
    /\ fn_ret = Unset
    /\ fn_ret' = [table |-> _build_supervised_dataset(fn_args.df, fn_args.lags)]
    /\ fn_args' = [fn_args EXCEPT !.df = CallerTableAfter(@, sort_values_date(@))]
    /\ UNCHANGED <<pc, df, horizon, lags, quantiles, future_meteo_7d, df_processed, ds,
                   models_q, recent_aqi, last_date, last_meteo, step, row_feat,
                   preds, forecast_list, result, lgbm, db, svc>>

\* raw rows: usable ones, and one for each way a row can be unusable or incomplete
RawRows ==
    {BaseRow(1), BaseRow(4),
     [BaseRow(2) EXCEPT !.aqi = None],
     [BaseRow(3) EXCEPT !.max_temp = Text],
     [BaseRow(5) EXCEPT !.min_temp = None],
     [BaseRow(6) EXCEPT !.wind = NotStr],
     [BaseRow(7) EXCEPT !.wind = Str(<<"N", "F">>)],
     [BaseRow(8) EXCEPT !.weather = NotStr, !.aqi = NumStr(58000)],
     [BaseRow(9) EXCEPT !.date = Text]}
RawTables == UNION {[1..n -> RawRows] : n \in 0..MaxRows}

\* preprocess_data called on a raw table, and then on what it returned
InitPreprocess ==
    \E t \in RawTables :
        /\ NoCalls
        /\ fn_args = [fn |-> "preprocess_data", df |-> t]
        /\ fn_ret = Unset /\ db = NoDatabase /\ svc = NoService

ApplyPreprocess ==
    /\ fn_args.fn = "preprocess_data"
    /\ fn_ret = Unset
    /\ fn_ret' = [table |-> preprocess_data(fn_args.df)]
    /\ fn_args' = [fn_args EXCEPT !.df = CallerTableAfter(@, preprocess_data(@))]
    /\ UNCHANGED <<pc, df, horizon, lags, quantiles, future_meteo_7d, df_processed, ds,
                   models_q, recent_aqi, last_date, last_meteo, step, row_feat,
                   preds, forecast_list, result, lgbm, db, svc>>

ApplyPreprocessAgain ==
    /\ fn_args.fn = "preprocess_data"
    /\ fn_ret # Unset
    /\ "again" \notin DOMAIN fn_ret
    /\ fn_ret' = [table |-> CallerTableAfter(fn_ret.table, preprocess_data(fn_ret.table)),
                  again |-> preprocess_data(fn_ret.table)]
    /\ UNCHANGED <<pc, df, horizon, lags, quantiles, future_meteo_7d, df_processed, ds,
                   models_q, recent_aqi, last_date, last_meteo, step, row_feat,
                   preds, forecast_list, result, lgbm, fn_args, db, svc>>

\* the wind texts: a value that is not a string, or any string of up to MaxStr
\* characters out of a letter, two digits, the unit suffix and a space
WindAlphabet == {"N", "1", "3", UnitSuffix, " "}
WindTexts == {NotStr} \cup {Str(s) : s \in UNION {[1..n -> WindAlphabet] : n \in 0..MaxStr}}

InitExtract ==
    \E w \in WindTexts :
        /\ NoCalls
        /\ fn_args = [fn |-> "_extract_wind_speed_and_direction", wind_str |-> w]
        /\ fn_ret = Unset /\ db = NoDatabase /\ svc = NoService

ApplyExtract ==
    /\ fn_args.fn = "_extract_wind_speed_and_direction"
    /\ fn_ret = Unset
    /\ fn_ret' = _extract_wind_speed_and_direction(fn_args.wind_str)
    /\ UNCHANGED <<pc, df, horizon, lags, quantiles, future_meteo_7d, df_processed, ds,
                   models_q, recent_aqi, last_date, last_meteo, step, row_feat,
                   preds, forecast_list, result, lgbm, fn_args, db, svc>>

(***************************************************************************)
(* analyze_wind_vs_aqi.  A mean or a median is the fraction num / den.     *)
(***************************************************************************)
RECURSIVE SumSeq(_)
SumSeq(q) == IF q = <<>> THEN 0 ELSE Head(q) + SumSeq(Tail(q))

\* the k-th smallest of the values of a sequence
Kth(vals, k) ==
    CHOOSE v \in {vals[j] : j \in 1..Len(vals)} :
        /\ Cardinality({j \in 1..Len(vals) : vals[j] < v}) < k
        /\ Cardinality({j \in 1..Len(vals) : vals[j] <= v}) >= k

\* Series.mean() and Series.median()
mean(vals) == [num |-> SumSeq(vals), den |-> Len(vals)]
median(vals) ==
    LET n == Len(vals)
    IN  IF n % 2 = 1 THEN [num |-> Kth(vals, (n + 1) \div 2), den |-> 1]
        ELSE [num |-> Kth(vals, n \div 2) + Kth(vals, (n \div 2) + 1), den |-> 2]
\* a >= b for two fractions with positive denominators
FracGeq(a, b) == a.num * b.den >= b.num * a.den

\* groupby(col)["aqi"].agg(["mean", "median", "count"]): one record per value of col
GroupAqi(t, col, key) ==
    LET rows == SelectSeq(t, LAMBDA r : r[col] = key)
    IN  [j \in 1..Len(rows) |-> rows[j].aqi.v]
AggRecord(t, col, key) ==
    [key |-> key, mean |-> mean(GroupAqi(t, col, key)),
     median |-> median(GroupAqi(t, col, key)), count |-> Len(GroupAqi(t, col, key))]
GroupBy(t, col) == {AggRecord(t, col, t[j][col]) : j \in 1..Len(t)}

EnoughRows_Inclusive(count) == count >= MinGroupCount

\* the filter [... ["count"] > 5] of lines 201 and 204
EnoughRows(count) == count > MinGroupCount

\* line 201: the groups kept, in ascending wind_speed order
SpeedAnalysis(t) ==
    LET kept == {g \in GroupBy(t, "wind_speed") : EnoughRows(g.count)}
    IN  CHOOSE q \in [1..Cardinality(kept) -> kept] :
            \A a, b \in 1..Cardinality(kept) : a < b => q[a].key.v < q[b].key.v

\* line 204: the groups kept, sorted by mean, largest first; the place of groups of
\* equal mean among themselves is whatever the sort leaves
DirectionAnalyses(t) ==
    LET kept == {g \in GroupBy(t, "wind_direction") : EnoughRows(g.count)}
    IN  {q \in [1..Cardinality(kept) -> kept] :
            /\ \A a, b \in 1..Cardinality(kept) : a # b => q[a] # q[b]
            /\ \A a, b \in 1..Cardinality(kept) : a < b => FracGeq(q[a].mean, q[b].mean)}

\* observation j of a wind table: direction dir, force digit, AQI aqi
WindObs(j, dir, digit, aqi) ==
    [BaseRow(j) EXCEPT !.wind = Str(<<dir, "F", digit, UnitSuffix>>), !.aqi = Num(aqi)]
\* nA rows of north wind force 3, nB of north wind force 1, nC of south wind force 3
\* and a row without AQI; the AQI of a group start at its base
WindTable(nA, nB, nC, bases) ==
    [j \in 1..nA |-> WindObs(j, "N", "3", bases[1] + j * 1000)]
    \o [j \in 1..nB |-> WindObs(j, "N", "1", bases[2] + j * j * 1000)]
    \o [j \in 1..nC |-> WindObs(j, "S", "3", bases[3] + j * 1000)]
    \o <<[WindObs(1, "S", "1", 0) EXCEPT !.aqi = None]>>
GroupSizes == {0, MinGroupCount, MinGroupCount + 1}
WindTables ==
    {<<>>} \cup
    {WindTable(nA, nB, nC, bases) :
        nA \in GroupSizes, nB \in GroupSizes, nC \in GroupSizes,
        bases \in {<<50000, 100000, 150000>>, <<100000, 50000, 100000>>}}

InitWindVsAqi ==
    \E t \in WindTables :
        /\ NoCalls
        /\ fn_args = [fn |-> "analyze_wind_vs_aqi", df |-> t]
        /\ fn_ret = Unset /\ db = NoDatabase /\ svc = NoService

ApplyWindVsAqi ==
    /\ fn_args.fn = "analyze_wind_vs_aqi"
    /\ fn_ret = Unset
    /\ LET processed == preprocess_data(fn_args.df)
       IN  /\ \E q \in DirectionAnalyses(processed) :
                  fn_ret' = [speed_analysis |-> SpeedAnalysis(processed),
                             direction_analysis |-> q]
           /\ fn_args' = [fn_args EXCEPT !.df = CallerTableAfter(@, processed)]
    /\ UNCHANGED <<pc, df, horizon, lags, quantiles, future_meteo_7d, df_processed, ds,
                   models_q, recent_aqi, last_date, last_meteo, step, row_feat,
                   preds, forecast_list, result, lgbm, db, svc>>

(***************************************************************************)
(* analyze_multi_factor_relationship.                                      *)
(***************************************************************************)
\* the labels of the two pd.cut calls (written in ASCII)
TempLabels == <<"hendi", "di", "zhong", "gao", "hengao">>
WindLabels == <<"weifeng", "hefeng", "qiangfeng", "liefeng">>
\* the right edges of the wind bins of line 232; the left edge of the first is -0.1
WindBinEdges == <<2, 4, 6, 12>>

\* pd.cut(max_temp, bins=5, include_lowest=True): five bins of equal width over
\* [mn, mx], closed on the right, the first one holding mn; when mn = mx the range is
\* widened on both sides and the value falls in the middle bin. 0 stands for NaN.
temp_bin(x, mn, mx) ==
    IF mn = mx THEN (TempBins + 1) \div 2
    ELSE Max(1, (TempBins * (x - mn) + (mx - mn) - 1) \div (mx - mn))

wind_bin_Unbounded(x) ==
    IF x < 0 THEN 0
    ELSE Min(Len(WindBinEdges),
             1 + Cardinality({j \in 1..Len(WindBinEdges) : WindBinEdges[j] < x}))

\* pd.cut(wind_speed, bins=[-0.1, 2, 4, 6, 12]): 0 stands for NaN (outside the bins)
wind_bin(x) ==
    IF x < 0 \/ x > WindBinEdges[Len(WindBinEdges)] THEN 0
    ELSE 1 + Cardinality({j \in 1..Len(WindBinEdges) : WindBinEdges[j] < x})

\* the order of str values: by code point, character by character
CodeOrder == <<" ", "0", "1", "2", "3", "4", "5", "6", "7", "8", "9",
               "D", "F", "N", "Q", "S", "W", "~", "wei", "zhi", "ji">>
CharRank(ch) == CHOOSE j \in 1..Len(CodeOrder) : CodeOrder[j] = ch
StrLess(a, b) ==
    \E n \in 0..Min(Len(a), Len(b)) :
        /\ SubSeq(a, 1, n) = SubSeq(b, 1, n)
        /\ \/ n = Len(a) /\ n < Len(b)
           \/ n < Len(a) /\ n < Len(b) /\ CharRank(a[n + 1]) < CharRank(b[n + 1])

\* value_counts().nlargest(6).index: six most frequent categories (all of them when
\* there are fewer); which of several equally frequent ones are taken is left open
TopWeathers(t) ==
    LET cats == {t[j].weather_simple : j \in 1..Len(t)}
        cnt(c) == Cardinality({j \in 1..Len(t) : t[j].weather_simple = c})
    IN  {S \in SUBSET cats :
            /\ Cardinality(S) = Min(TopWeatherCount, Cardinality(cats))
            /\ \A a \in S : \A b \in cats \ S : cnt(a) >= cnt(b)}

\* lines 223-235: the two bin columns added to the rows
WithBins(t) ==
    LET temps == {t[j].max_temp.v : j \in 1..Len(t)}
        mn == CHOOSE x \in temps : \A y \in temps : x <= y
        mx == CHOOSE x \in temps : \A y \in temps : x >= y
    IN  [j \in 1..Len(t) |->
            [temp_bin |-> temp_bin(t[j].max_temp.v, mn, mx),
             wind_bin |-> wind_bin(t[j].wind_speed.v),
             weather_simple |-> t[j].weather_simple, aqi |-> t[j].aqi.v]]

\* the order of the group keys (temp_bin, wind_bin, weather_simple)
CellLess(a, b) ==
    \/ a.temp_bin < b.temp_bin
    \/ a.temp_bin = b.temp_bin /\ a.wind_bin < b.wind_bin
    \/ a.temp_bin = b.temp_bin /\ a.wind_bin = b.wind_bin
       /\ StrLess(a.weather_simple.s, b.weather_simple.s)

\* lines 238-258: the mean AQI of every cell that has members, in key order
HeatmapData(binned, top) ==
    LET filtered == SelectSeq(binned, LAMBDA r : r.weather_simple \in top /\ r.wind_bin # 0)
        cells == {[temp_bin |-> filtered[j].temp_bin, wind_bin |-> filtered[j].wind_bin,
                   weather_simple |-> filtered[j].weather_simple] : j \in 1..Len(filtered)}
        members(c) == SelectSeq(filtered, LAMBDA r :
                          /\ r.temp_bin = c.temp_bin /\ r.wind_bin = c.wind_bin
                          /\ r.weather_simple = c.weather_simple)
        place(c) == 1 + Cardinality({d \in cells : CellLess(d, c)})
    IN  [k \in 1..Cardinality(cells) |->
            LET c == CHOOSE d \in cells : place(d) = k
            IN  [temp_bin |-> TempLabels[c.temp_bin], wind_bin |-> WindLabels[c.wind_bin],
                 weather_simple |-> c.weather_simple.s,
                 aqi |-> mean([j \in 1..Len(members(c)) |-> members(c)[j].aqi])]]

\* the decimal digits of a number below 100
DigitsOf(n) ==
    IF n < 10 THEN <<Digits[n + 1]>> ELSE <<Digits[(n \div 10) + 1], Digits[(n % 10) + 1]>>
\* observation j: maximum temperature temp, wind force speed, weather number k (0 for
\* a weather that is not a string)
MultiObs(j, temp, speed, k) ==
    [BaseRow(j) EXCEPT !.max_temp = Num(temp),
                       !.wind = Str(<<"N", "F">> \o DigitsOf(speed) \o <<UnitSuffix>>),
                       !.weather = IF k = 0 THEN NotStr
                                   ELSE Str(<<"W", Digits[k + 1], "~", "D">>),
                       !.aqi = Num((50 + 7 * j) * 1000)]
WeatherSeqs ==
    {<<>>, <<1, 2, 3, 4, 5, 6, 7>>, <<1, 7, 2, 3, 4, 5, 6, 7, 1>>, <<1, 2, 1, 2, 1>>,
     <<0, 1, 0>>}
TempSeqs == {<<20>>, <<20, 25, 21, 22, 23, 24>>, <<21, 18, 19>>}
SpeedSeqs == {<<0, 2, 3, 12>>, <<13, 4, 13, 5, 6, 7, 13, 4>>, <<13>>}
Cycle(q, j) == q[((j - 1) % Len(q)) + 1]
MultiTables ==
    {[j \in 1..Len(ws) |-> MultiObs(j, Cycle(ts, j), Cycle(ss, j), ws[j])] :
        ws \in WeatherSeqs, ts \in TempSeqs, ss \in SpeedSeqs}

InitMultiFactor ==
    \E t \in MultiTables :
        /\ NoCalls
        /\ fn_args = [fn |-> "analyze_multi_factor_relationship", df |-> t]
        /\ fn_ret = Unset /\ db = NoDatabase /\ svc = NoService

ApplyMultiFactor ==
    /\ fn_args.fn = "analyze_multi_factor_relationship"
    /\ fn_ret = Unset
    /\ LET processed == preprocess_data(fn_args.df)
       IN  /\ IF processed = <<>> THEN fn_ret' = [out |-> <<>>]
              ELSE \E top \in TopWeathers(processed) :
                       fn_ret' = [out |-> HeatmapData(WithBins(processed), top)]
           /\ fn_args' = [fn_args EXCEPT !.df = CallerTableAfter(@, processed)]
    /\ UNCHANGED <<pc, df, horizon, lags, quantiles, future_meteo_7d, df_processed, ds,
                   models_q, recent_aqi, last_date, last_meteo, step, row_feat,
                   preds, forecast_list, result, lgbm, db, svc>>

(***************************************************************************)
(* train_aqi_prediction_model.  A fitted LinearRegression is the record of *)
(* what it was fitted on, a prediction the record of the model and of the  *)
(* row it was asked about.                                                 *)
(***************************************************************************)
\* lines 153-165: one row of X = df_encoded[features]; the one-hot columns of a row
\* are 1 for its own category and 0 for every other category of the table
EncodedRow(t, j) ==
    [max_temp |-> t[j].max_temp.v, min_temp |-> t[j].min_temp.v,
     wind_speed |-> t[j].wind_speed.v,
     weather |-> [c \in {t[m].weather_simple : m \in 1..Len(t)} |->
                    IF t[j].weather_simple = c THEN 1 ELSE 0],
     wind_dir |-> [c \in {t[m].wind_direction : m \in 1..Len(t)} |->
                     IF t[j].wind_direction = c THEN 1 ELSE 0]]

\* test_size=0.2: the number of held-out rows is ceil(0.2 * n)
TestSize(n) == (n + 4) \div 5

\* the permutation train_test_split draws with random_state=42 is one fixed order of
\* the n rows; the model takes it from these
SplitOrders(n) ==
    {[j \in 1..n |-> j], [j \in 1..n |-> n + 1 - j],
     [j \in 1..n |-> IF 2 * j - 1 <= n THEN 2 * j - 1 ELSE 2 * (j - ((n + 1) \div 2))]}

\* the held-out rows are the first TestSize(n) of the order, the training rows the rest
TestIndices(order, n) == SubSeq(order, 1, TestSize(n))

TrainIndices_All(order, n) == order

TrainIndices(order, n) == SubSeq(order, TestSize(n) + 1, n)

\* LinearRegression().fit(X_train, y_train)
LinearFit(X, y) == [X |-> X, y |-> y]
\* model.predict(X_test), row by row
LinearPredict(model, x) == [model |-> model, x |-> x]

\* lines 152-189
TrainResult(t, order) ==
    LET n == Len(t)
        test == TestIndices(order, n)
        train == TrainIndices(order, n)
        model == LinearFit([j \in 1..Len(train) |-> EncodedRow(t, train[j])],
                           [j \in 1..Len(train) |-> t[train[j]].aqi.v])
        y_test == [j \in 1..Len(test) |-> t[test[j]].aqi.v]
        y_pred == [j \in 1..Len(test) |-> LinearPredict(model, EncodedRow(t, test[j]))]
    IN  [result |-> [model_score_r2 |-> [score |-> y_pred, against |-> y_test],
                     rmse |-> [error |-> y_pred, against |-> y_test],
                     intercept |-> [of |-> model],
                     top_features |-> [of |-> model],
                     scatter_data |-> [actual |-> y_test, predicted |-> y_pred]],
         model |-> model]

TrainTables ==
    {<<>>, Clean(MinTrainRows - 1), Clean(MinTrainRows), Clean(MinTrainRows + 1),
     <<UndatedRow>> \o Clean(MinTrainRows - 1),
     Clean(MinTrainRows - 1) \o UnusableRows(MinTrainRows - 1),
     Reverse(Clean(MinTrainRows) \o UnusableRows(MinTrainRows)),
     NoWeather(Clean(MinTrainRows))}

InitTrain ==
    \E t \in TrainTables :
        /\ NoCalls
        /\ fn_args = [fn |-> "train_aqi_prediction_model", df |-> t]
        /\ fn_ret = Unset /\ db = NoDatabase /\ svc = NoService

\* lines 147-150: too few rows after preprocessing
TrainInsufficient ==
    /\ fn_args.fn = "train_aqi_prediction_model"
    /\ fn_ret = Unset
    /\ LET processed == preprocess_data(fn_args.df)
       IN  /\ Len(processed) < MinTrainRows
           /\ fn_ret' = [result |-> [error |-> "insufficient data"], model |-> Unset]
           /\ fn_args' = [fn_args EXCEPT !.df = CallerTableAfter(@, processed)]
    /\ UNCHANGED <<pc, df, horizon, lags, quantiles, future_meteo_7d, df_processed, ds,
                   models_q, recent_aqi, last_date, last_meteo, step, row_feat,
                   preds, forecast_list, result, lgbm, db, svc>>

\* lines 147-189
TrainModel ==
    /\ fn_args.fn = "train_aqi_prediction_model"
    /\ fn_ret = Unset
    /\ LET processed == preprocess_data(fn_args.df)
       IN  /\ Len(processed) >= MinTrainRows
           /\ \E order \in SplitOrders(Len(processed)) :
                  fn_ret' = TrainResult(processed, order)
           /\ fn_args' = [fn_args EXCEPT !.df = CallerTableAfter(@, processed)]
    /\ UNCHANGED <<pc, df, horizon, lags, quantiles, future_meteo_7d, df_processed, ds,
                   models_q, recent_aqi, last_date, last_meteo, step, row_feat,
                   preds, forecast_list, result, lgbm, db, svc>>

\* forecast_aqi_7_days called once
InitForecast ==
    \E L \in 1..MaxLags :
        \E t \in {Clean(L + MinExtraDates - 1), Reverse(Clean(L + MinExtraDates)),
                  NoWeather(Clean(L + MinExtraDates))},
           f \in {NoFuture, FutureList(<<FullMeteo(1)>>)} :
            Start({1}, t, L, MaxHorizon, <<90, 10>>, f) /\ fn_args = NoArgs /\ fn_ret = Unset /\ db = NoDatabase /\ svc = NoService

InitEngine ==
    \/ InitForecast
    \/ InitBuildSupervised
    \/ InitPreprocess
    \/ InitExtract
    \/ InitWindVsAqi
    \/ InitMultiFactor
    \/ InitTrain

NextEngine ==
    \/ Next
    \/ ApplyBuildSupervised
    \/ ApplyPreprocess
    \/ ApplyPreprocessAgain
    \/ ApplyExtract
    \/ ApplyWindVsAqi
    \/ ApplyMultiFactor
    \/ TrainInsufficient
    \/ TrainModel

SpecEngine == InitEngine /\ [][NextEngine]_vars

(***************************************************************************)
(* api_server.py, the search history of the users (table search_history).  *)
(* searched_at is a MySQL DATETIME, whole seconds of datetime.utcnow; the  *)
(* clock of svc counts seconds and never goes back.                        *)
(***************************************************************************)
UNCHANGED_engine ==
    UNCHANGED <<pc, df, horizon, lags, quantiles, future_meteo_7d, df_processed, ds,
                models_q, recent_aqi, last_date, last_meteo, step, row_feat,
                preds, forecast_list, result, lgbm, fn_args, fn_ret>>

HistoryCap == 30
Users == {1, 2}
MaxAdds == 2

HistoryOf(rows, u) == {r \in rows : r.user_id = u}

\* n earlier searches of user u: one per second, or all within the second before the start
EarlierSearches(u, n, spaced) ==
    {[id |-> HistoryCap * (u - 1) + j, user_id |-> u,
      searched_at |-> IF spaced THEN j ELSE HistoryCap] : j \in 1..n}

\* the rows an ORDER BY searched_at DESC may list last: those of the oldest second
Oldest(rows) == {r \in rows : \A o \in rows : r.searched_at <= o.searched_at}

\* the tables left by deleting ids[30:] of a listing by searched_at descending; the
\* order of rows of the same second is the server's choice
RECURSIVE AfterDelete(_)
AfterDelete(rows) ==
    IF Cardinality(rows) <= HistoryCap THEN {rows}
    ELSE UNION {AfterDelete(rows \ {d}) : d \in Oldest(rows)}

InitHistory ==
    \E n1 \in {0, HistoryCap - 1, HistoryCap}, n2 \in {0, HistoryCap},
       s1 \in BOOLEAN, s2 \in {TRUE} :
        /\ NoCalls
        /\ fn_args = NoArgs
        /\ fn_ret = Unset
        /\ db = [search_history |-> EarlierSearches(1, n1, s1) \cup EarlierSearches(2, n2, s2),
                 auto_increment |-> 2 * HistoryCap + 1]
        /\ svc = [call |-> "none", clock |-> HistoryCap, adds |-> 0]

\* POST /api/users/history by user u, dt seconds after the previous call
history_add(u, dt) ==
    /\ svc.adds < MaxAdds
    /\ LET now == svc.clock + dt
           item == [id |-> db.auto_increment, user_id |-> u, searched_at |-> now]
           added == db.search_history \cup {item}
       IN  /\ \E kept \in AfterDelete(HistoryOf(added, u)) :
                db' = [search_history |-> (added \ HistoryOf(added, u)) \cup kept,
                       auto_increment |-> db.auto_increment + 1]
           /\ svc' = [call |-> "history_add", user |-> u, item |-> item,
                      clock |-> now, adds |-> svc.adds + 1]
    /\ UNCHANGED_engine

NextHistory == \E u \in Users, dt \in {0, 1} : history_add(u, dt)

SpecHistory == InitHistory /\ [][NextHistory]_vars

(***************************************************************************)
(* api_server.py, POST /api/social/toggle (table social_interactions).     *)
(* A payload value is Str(s) or NotStr (the key is missing); words are     *)
(* written as one element of the string.                                   *)
(***************************************************************************)
MaxToggles == 3

DefaultArea == <<"guangzhou">>
InteractionTypes == {<<"like">>, <<"favorite">>, <<"follow">>}

\* (payload.get(key) or default).strip()
PayloadText(c, default) == strip(IF c.isstr /\ c.s # <<>> THEN c.s ELSE default)

\* the rows the query of lines 297-301 matches
Existing_AnyUser(rows, u, area, t) ==
    {r \in rows : r.area = area /\ r.interaction_type = t}
Existing(rows, u, area, t) ==
    {r \in rows : r.user_id = u /\ r.area = area /\ r.interaction_type = t}

\* the count of line 314: the rows of (area, type), whoever the user
CountOf(rows, area, t) == Cardinality({r \in rows : r.area = area /\ r.interaction_type = t})

\* the keys (user, area, type) that have a row
KeysOf(rows) == {<<r.user_id, r.area, r.interaction_type>> : r \in rows}

AreaPayloads == {NotStr, Str(<<"tianhe">>), Str(<<"tianhe", " ">>)}
TypePayloads == {NotStr, Str(<<"like">>), Str(<<" ", "follow">>), Str(<<"share">>)}

InitSocial ==
    /\ NoCalls
    /\ fn_args = NoArgs
    /\ fn_ret = Unset
    /\ db = [social_interactions |-> {}, auto_increment |-> 1]
    /\ svc = [call |-> "none", toggles |-> 0, key |-> <<>>, keys_before |-> {}]

\* one request of user u; svc keeps the key toggled and the keys present before it
social_toggle(u, pa, pt) ==
    /\ svc.toggles < MaxToggles
    /\ LET area == PayloadText(pa, DefaultArea)
           t == PayloadText(pt, <<>>)
           rows == db.social_interactions
           existing == Existing(rows, u, area, t)
           first == CHOOSE r \in existing : \A o \in existing : r.id <= o.id
           item == [id |-> db.auto_increment, user_id |-> u, area |-> area,
                    interaction_type |-> t]
           after == IF existing # {} THEN rows \ {first} ELSE rows \cup {item}
       IN  IF t \notin InteractionTypes
           THEN /\ db' = db
                /\ svc' = [call |-> "social_toggle", toggles |-> svc.toggles + 1,
                           user |-> u, area |-> pa, type |-> pt,
                           key |-> <<>>, keys_before |-> KeysOf(rows),
                           response |-> [status |-> 400]]
           ELSE /\ db' = [social_interactions |-> after,
                          auto_increment |-> IF existing # {} THEN db.auto_increment
                                             ELSE db.auto_increment + 1]
                /\ svc' = [call |-> "social_toggle", toggles |-> svc.toggles + 1,
                           user |-> u, area |-> pa, type |-> pt,
                           key |-> <<u, area, t>>, keys_before |-> KeysOf(rows),
                           response |-> [status |-> 200, ok |-> TRUE, area |-> area,
                                         type |-> t, count |-> CountOf(after, area, t),
                                         active |-> existing = {}]]
    /\ UNCHANGED_engine

NextSocial == \E u \in Users, pa \in AreaPayloads, pt \in TypePayloads : social_toggle(u, pa, pt)

SpecSocial == InitSocial /\ [][NextSocial]_vars

(***************************************************************************)
(* services/weather_scraper.py save_data_to_db and services/data_loader.py *)
(* load_data_to_db (table weather_data, which has no unique index).        *)
(***************************************************************************)
MaxBatch == 2
MaxSaves == 2

KeyOf(r) == <<r.area, r.date>>

\* the items of a batch: two readings of one (area, date), another date, another area
Items ==
    {[area |-> "tianhe", date |-> 1, aqi |-> 50], [area |-> "tianhe", date |-> 1, aqi |-> 60],
     [area |-> "tianhe", date |-> 2, aqi |-> 50], [area |-> "yuexiu", date |-> 1, aqi |-> 50]}
Batches == UNION {[1..n -> Items] : n \in 0..MaxBatch}

\* lines 185-189 of the scraper, lines 78-82 of the loader: the items, in order, whose
\* key is not among existing_keys, which the loop never extends
NewRecords(data, existing_keys) ==
    SelectSeq(data, LAMBDA item : KeyOf(item) \notin existing_keys)

\* bulk_save_objects: one row per record, ids from the auto-increment
Inserted(records, first_id) ==
    {[id |-> first_id + j - 1, area |-> records[j].area, date |-> records[j].date,
      aqi |-> records[j].aqi] : j \in 1..Len(records)}

InitIngest ==
    /\ NoCalls
    /\ fn_args = NoArgs
    /\ fn_ret = Unset
    /\ db = [weather_data |-> {}, auto_increment |-> 1]
    /\ svc = [call |-> "none", saves |-> 0]

save_data_to_db(data) ==
    /\ svc.saves < MaxSaves
    /\ LET dates == {data[j].date : j \in 1..Len(data)}
           existing_keys == {KeyOf(r) : r \in {w \in db.weather_data :
                                 \E lo \in dates, hi \in dates :
                                    /\ \A d \in dates : lo <= d /\ d <= hi
                                    /\ lo <= w.date /\ w.date <= hi}}
           new_records == IF data = <<>> THEN <<>> ELSE NewRecords(data, existing_keys)
       IN  /\ db' = [weather_data |-> db.weather_data
                                        \cup Inserted(new_records, db.auto_increment),
                     auto_increment |-> db.auto_increment + Len(new_records)]
           /\ svc' = [call |-> "save_data_to_db", saves |-> svc.saves + 1, data |-> data,
                      truncate |-> FALSE, ret |-> Len(new_records)]
    /\ UNCHANGED_engine

load_data_to_db(records, truncate) ==
    /\ svc.saves < MaxSaves
    /\ LET stored == IF truncate THEN {} ELSE db.weather_data
           existing_keys == {KeyOf(r) : r \in stored}
           new_records == NewRecords(records, existing_keys)
       IN  /\ db' = [weather_data |-> stored \cup Inserted(new_records, db.auto_increment),
                     auto_increment |-> db.auto_increment + Len(new_records)]
           /\ svc' = [call |-> "load_data_to_db", saves |-> svc.saves + 1, data |-> records,
                      truncate |-> truncate, ret |-> Len(new_records)]
    /\ UNCHANGED_engine

NextIngest ==
    \/ \E data \in Batches : save_data_to_db(data)
    \/ \E records \in Batches, truncate \in BOOLEAN : load_data_to_db(records, truncate)

SpecIngest == InitIngest /\ [][NextIngest]_vars

(***************************************************************************)
(* services/aggregation.py aggregate_series. A date is a number of days    *)
(* since Monday 2024-01-01; a row is a date and one value.                 *)
(***************************************************************************)
\* Series.dt.to_period(freq).dt.start_time: "W-MON" is the weekly frequency whose
\* periods END on a Monday, so a period runs from a Tuesday to the next Monday
PeriodStart(d, granularity) ==
    CASE granularity = "day" -> d
      [] granularity = "week" -> IF dayofweek(d) = 0 THEN d - 6 ELSE d - dayofweek(d) + 1
      [] granularity = "month" -> IF month(d) = 1 THEN 0 ELSE MonthEnds[month(d) - 1]

\* the values of the rows of one key, in row order
ValuesOf(t, granularity, key) ==
    LET at == SelectSeq([j \in 1..Len(t) |-> j],
                        LAMBDA j : PeriodStart(t[j].date, granularity) = key)
    IN  [j \in 1..Len(at) |-> t[at[j]].value]

\* groupby("date").agg("mean") and sort_values("date"): one row per key, ascending
RECURSIVE Grouped(_, _, _)
Grouped(t, granularity, keys) ==
    IF keys = {} THEN <<>>
    ELSE LET k == CHOOSE x \in keys : \A y \in keys : x <= y
         IN  <<[date |-> k, value |-> mean(ValuesOf(t, granularity, k))]>>
                 \o Grouped(t, granularity, keys \ {k})

aggregate_series(t, granularity) ==
    IF granularity \notin {"day", "week", "month"}
    THEN [error |-> "ValueError"]
    ELSE [out |-> Grouped(t, granularity,
                          {PeriodStart(t[j].date, granularity) : j \in 1..Len(t)})]

\* series of up to len rows over two weeks and a month's turn
AggDays == 0..8 \cup {14, 30, 31}
AggTables(len) == UNION {{[j \in 1..n |-> [date |-> dates[j], value |-> 100 + j]] :
                             dates \in [1..n -> AggDays]} : n \in 0..len}

InitAggregate ==
    \E t \in AggTables(MaxRows), g \in {"day", "week", "month", "year"} :
        /\ NoCalls
        /\ fn_args = [fn |-> "aggregate_series", df |-> t, granularity |-> g]
        /\ fn_ret = Unset /\ db = NoDatabase /\ svc = NoService

ApplyAggregate ==
    /\ fn_args.fn = "aggregate_series"
    /\ fn_ret = Unset
    /\ fn_ret' = aggregate_series(fn_args.df, fn_args.granularity)
    /\ UNCHANGED <<pc, df, horizon, lags, quantiles, future_meteo_7d, df_processed, ds,
                   models_q, recent_aqi, last_date, last_meteo, step, row_feat,
                   preds, forecast_list, result, lgbm, fn_args, db, svc>>

SpecAggregate == InitAggregate /\ [][ApplyAggregate]_vars

(***************************************************************************)
(* services/quality_checks.py evaluate_forecast_error: one action for the  *)
(* code before the loop, one per day of the loop, one for the code after.  *)
(* The table loaded has one row per date; forecast_aqi_7_days is a call    *)
(* whose outcome is open: an error, an exception, or a forecast.           *)
(***************************************************************************)
MinSamples == 90
EpsInverse == 1000000000
MaxBacktest == 3

Abs(x) == IF x < 0 THEN 0 - x ELSE x
RECURSIVE GCD(_, _)
GCD(a, b) == IF b = 0 THEN a ELSE GCD(b, a % b)
FracAdd(x, y) ==
    LET n == x.num * y.den + y.num * x.den
        d == x.den * y.den
        g == GCD(d, n)
    IN  [num |-> n \div g, den |-> d \div g]

\* abs(a - p) / denom of line 365
AbsPctError(a, p) ==
    IF Abs(a) > 0 THEN FracAdd([num |-> 0, den |-> 1], [num |-> Abs(a - p), den |-> Abs(a)])
    ELSE [num |-> Abs(a - p) * EpsInverse, den |-> 1]

\* _mape over the points collected: "nan" when there is none
RECURSIVE SumErrors(_)
SumErrors(points) ==
    IF points = <<>> THEN [num |-> 0, den |-> 1]
    ELSE FracAdd(AbsPctError(Head(points).real, Head(points).pred), SumErrors(Tail(points)))
_mape(points) ==
    IF points = <<>> THEN [nan |-> TRUE]
    ELSE [nan |-> FALSE, num |-> SumErrors(points).num,
          den |-> SumErrors(points).den * Len(points)]

\* the outcomes of forecast_aqi_7_days(train, horizon=1): aqi_p50 or no forecast
ForecastOutcomes ==
    {[kind |-> "error", aqi_p50 |-> 0], [kind |-> "raise", aqi_p50 |-> 0]}
        \cup {[kind |-> "forecast", aqi_p50 |-> v] : v \in {50, 150, 200}}
Thresholds == {[num |-> 7, den |-> 10], [num |-> 1, den |-> 2]}

\* the table of an area: a row a day for days 1..MinSamples - 3 and for some of the
\* five days after, AQI 100 on even days and 50 on odd days, missing on day missing
HistoryTable(tail, missing) ==
    {[date |-> d, aqi |-> IF d = missing THEN None ELSE Num(IF d % 2 = 0 THEN 100 ELSE 50)] :
        d \in 1..(MinSamples - 3) \cup tail}
HistoryTables ==
    {{}} \cup {HistoryTable(tail, missing) :
                  tail \in SUBSET ((MinSamples - 2)..(MinSamples + 2)),
                  missing \in {0, MinSamples + 2}}

\* rows of a later date than d, which a forecast for day d + 1 must not see
TrainOf_All(rows, d) == rows
TrainOf(rows, d) == {r \in rows : r.date <= d}

InitBacktest ==
    \E t \in HistoryTables, b \in 1..MaxBacktest, th \in Thresholds :
        /\ NoCalls
        /\ fn_args = [fn |-> "evaluate_forecast_error", df |-> t,
                      backtest_days |-> b, threshold |-> th]
        /\ fn_ret = Unset
        /\ db = NoDatabase
        /\ svc = [call |-> "evaluate_forecast_error", pc |-> "start"]

\* lines 377-392
BacktestStart ==
    /\ svc.call = "evaluate_forecast_error"
    /\ svc.pc = "start"
    /\ LET rows == {r \in fn_args.df : ~isna(r.aqi)}
           end_date == CHOOSE d \in {r.date : r \in rows} : \A r \in rows : r.date <= d
       IN  IF fn_args.df = {} \/ Cardinality(rows) < MinSamples
           THEN /\ fn_ret' = [ok |-> FALSE, error |-> IF fn_args.df = {} THEN "no history"
                                                      ELSE "too few samples"]
                /\ svc' = [call |-> "evaluate_forecast_error", pc |-> "done"]
           ELSE /\ fn_ret' = fn_ret
                /\ svc' = [call |-> "evaluate_forecast_error", pc |-> "loop", rows |-> rows,
                           end_date |-> end_date, d |-> end_date - fn_args.backtest_days,
                           train |-> {}, res |-> [kind |-> "none", aqi_p50 |-> 0],
                           points |-> <<>>]
    /\ UNCHANGED <<pc, df, horizon, lags, quantiles, future_meteo_7d, df_processed, ds,
                   models_q, recent_aqi, last_date, last_meteo, step, row_feat,
                   preds, forecast_list, result, lgbm, fn_args, db>>

\* lines 394-408 for one day d
BacktestDay ==
    /\ svc.pc = "loop"
    /\ svc.d <= svc.end_date - 1
    /\ \E res \in ForecastOutcomes :
         LET train == TrainOf(svc.rows, svc.d)
             real_row == {r \in svc.rows : r.date = svc.d + 1}
             real == (CHOOSE r \in real_row : TRUE).aqi.v
         IN  IF res.kind = "raise"
             THEN /\ svc' = [call |-> "evaluate_forecast_error", pc |-> "raised"]
                  /\ fn_ret' = fn_ret
             ELSE /\ svc' = [svc EXCEPT
                       !.d = @ + 1, !.train = train, !.res = res,
                       !.points = IF res.kind = "error" \/ real_row = {} THEN @
                                  ELSE Append(@, [date |-> svc.d + 1, real |-> real,
                                                  pred |-> res.aqi_p50])]
                  /\ fn_ret' = fn_ret
    /\ UNCHANGED <<pc, df, horizon, lags, quantiles, future_meteo_7d, df_processed, ds,
                   models_q, recent_aqi, last_date, last_meteo, step, row_feat,
                   preds, forecast_list, result, lgbm, fn_args, db>>

\* lines 410-421
BacktestReturn ==
    /\ svc.pc = "loop"
    /\ svc.d > svc.end_date - 1
    /\ LET mape == _mape(svc.points)
       IN  fn_ret' = [ok |-> TRUE, backtest_days |-> fn_args.backtest_days, mape |-> mape,
                      threshold |-> fn_args.threshold,
                      pass |-> IF mape.nan THEN FALSE ELSE FracGeq(fn_args.threshold, mape),
                      points |-> svc.points]
    /\ svc' = [svc EXCEPT !.pc = "done"]
    /\ UNCHANGED <<pc, df, horizon, lags, quantiles, future_meteo_7d, df_processed, ds,
                   models_q, recent_aqi, last_date, last_meteo, step, row_feat,
                   preds, forecast_list, result, lgbm, fn_args, db>>

NextBacktest == BacktestStart \/ BacktestDay \/ BacktestReturn

SpecBacktest == InitBacktest /\ [][NextBacktest]_vars

(***************************************************************************)
(* api_server.py, the tables the two forecast endpoints hand to            *)
(* forecast_aqi_7_days. weather_data is a sequence of rows in primary-key  *)
(* order; of the columns only area, date and aqi are kept (the others are  *)
(* carried along). No start or end is 0.                                   *)
(***************************************************************************)
\* the names of the whole city (four of them written in ASCII here)
CityAliases == {"guangzhou", "guangzhoushi", "quanshi", "quanbu", "all", "ALL"}
NoArea == "none"

_area_filter(area) == IF area \in CityAliases THEN NoArea ELSE area

InRange(r, start, end) == (start = 0 \/ r.date >= start) /\ (end = 0 \/ r.date <= end)

\* a falsy area_real (None or the empty string) adds no condition on the area
_load_df_from_db(rows, area, start, end) ==
    LET area_real == _area_filter(area)
        picked == SelectSeq(rows, LAMBDA r : /\ area_real \in {NoArea, ""} \/ r.area = area_real
                                             /\ InRange(r, start, end))
    IN  [j \in 1..Len(picked) |-> [date |-> picked[j].date, aqi |-> picked[j].aqi]]

\* SELECT date, avg(aqi) ... GROUP BY date ORDER BY date: one row per date, ascending
RECURSIVE CityAverage(_, _)
CityAverage(picked, dates) ==
    IF dates = {} THEN <<>>
    ELSE LET d == CHOOSE x \in dates : \A y \in dates : x <= y
             of_d == SelectSeq(picked, LAMBDA r : r.date = d)
         IN  <<[date |-> d, aqi |-> mean([j \in 1..Len(of_d) |-> of_d[j].aqi])]>>
                 \o CityAverage(picked, dates \ {d})

\* GET /api/analysis/forecast_7d up to the call of forecast_aqi_7_days
analysis_forecast_7d(rows, area, start, end) ==
    IF _area_filter(area) \notin {NoArea, ""}
    THEN LET t == _load_df_from_db(rows, area, start, end)
         IN  IF t = <<>> THEN [error |-> "no data"] ELSE [df |-> t]
    ELSE LET picked == SelectSeq(rows, LAMBDA r : InRange(r, start, end))
         IN  IF picked = <<>> THEN [error |-> "no data"]
             ELSE [df |-> CityAverage(picked, {picked[j].date : j \in 1..Len(picked)})]

\* POST /api/predict/aqi_7d up to the call of forecast_aqi_7_days
predict_aqi_7d(rows, payload_area) ==
    LET area == IF payload_area \in {NoArea, ""} THEN "guangzhou" ELSE payload_area
        df_hist == _load_df_from_db(rows, area, 0, 0)
    IN  IF df_hist = <<>> THEN [error |-> "no history"] ELSE [df |-> df_hist]

\* tables with at most one row per (area, date): two districts, two days
DistrictRows ==
    <<[area |-> "tianhe", date |-> 1, aqi |-> 50], [area |-> "yuexiu", date |-> 1, aqi |-> 90],
      [area |-> "tianhe", date |-> 2, aqi |-> 60], [area |-> "yuexiu", date |-> 2, aqi |-> 80]>>
WeatherTables ==
    {SelectSeq(DistrictRows, LAMBDA r : r \in keep) :
        keep \in SUBSET {DistrictRows[j] : j \in 1..Len(DistrictRows)}}
AreaArguments == {"tianhe", "yuexiu", "panyu", "guangzhou", "all", "", NoArea}

InitEndpoints ==
    \E t \in WeatherTables, a \in AreaArguments, s \in {0, 2},
       e \in {"analysis_forecast_7d", "predict_aqi_7d"} :
        \* the query parameter area has a default; the payload has no start
        /\ e = "analysis_forecast_7d" => a # NoArea
        /\ e = "predict_aqi_7d" => s = 0
        /\ NoCalls
        /\ fn_args = [fn |-> e, area |-> a, start |-> s, end |-> 0]
        /\ fn_ret = Unset
        /\ db = [weather_data |-> t]
        /\ svc = NoService

ApplyForecast7d ==
    /\ fn_args.fn = "analysis_forecast_7d"
    /\ fn_ret = Unset
    /\ fn_ret' = analysis_forecast_7d(db.weather_data, fn_args.area, fn_args.start, fn_args.end)
    /\ UNCHANGED <<pc, df, horizon, lags, quantiles, future_meteo_7d, df_processed, ds,
                   models_q, recent_aqi, last_date, last_meteo, step, row_feat,
                   preds, forecast_list, result, lgbm, fn_args, db, svc>>

ApplyPredict7d ==
    /\ fn_args.fn = "predict_aqi_7d"
    /\ fn_ret = Unset
    /\ fn_ret' = predict_aqi_7d(db.weather_data, fn_args.area)
    /\ UNCHANGED <<pc, df, horizon, lags, quantiles, future_meteo_7d, df_processed, ds,
                   models_q, recent_aqi, last_date, last_meteo, step, row_feat,
                   preds, forecast_list, result, lgbm, fn_args, db, svc>>

NextEndpoints == ApplyForecast7d \/ ApplyPredict7d

SpecEndpoints == InitEndpoints /\ [][NextEndpoints]_vars

(***************************************************************************)
(* services/weather_scraper.py WeatherScraper.run: one scrape_area task    *)
(* per area under asyncio.gather, the tasks interleaving at their awaits.  *)
(* A request ends with a body or with an httpx.HTTPError; another          *)
(* exception is not modelled.                                              *)
(***************************************************************************)
MaxRetries == 3

\* two of the areas of AREA_CODES, in its order
Areas == <<"conghua", "zengcheng">>
AreaSet == {Areas[j] : j \in 1..Len(Areas)}
Bodies == {"", "page"}
NoPage == [ok |-> FALSE, text |-> ""]

RECURSIVE Pow2(_)
Pow2(n) == IF n = 0 THEN 1 ELSE 2 * Pow2(n - 1)

\* for attempt in range(self.max_retries)
MoreAttempts_Inclusive(attempt, max_retries) == attempt <= max_retries
MoreAttempts(attempt, max_retries) == attempt < max_retries

\* _parse_html: the rows of a page, none for an empty body
_parse_html(html, area) == IF html = "page" THEN <<[area |-> area, date |-> 1]>> ELSE <<>>

RECURSIVE Extended(_, _)
Extended(results, j) ==
    IF j = 0 THEN <<>> ELSE Extended(results, j - 1) \o results[Areas[j]]

InitScrape ==
    \E m \in 0..MaxRetries :
        /\ NoCalls
        /\ fn_args = NoArgs
        /\ fn_ret = Unset
        /\ db = NoDatabase
        /\ svc = [call |-> "run", max_retries |-> m, returned |-> FALSE, all_data |-> <<>>,
                  task |-> [a \in AreaSet |->
                              [pc |-> "fetch", attempt |-> 0, requests |-> 0, failed |-> 0,
                               waits |-> <<>>, html |-> NoPage, res |-> <<>>]]]

\* lines 75-81: one client.get of the task of area a, answered or failed
Request(a) ==
    /\ svc.call = "run"
    /\ svc.task[a].pc = "fetch"
    /\ MoreAttempts(svc.task[a].attempt, svc.max_retries)
    /\ \/ \E body \in Bodies :
            svc' = [svc EXCEPT !.task[a].requests = @ + 1,
                               !.task[a].html = [ok |-> TRUE, text |-> body],
                               !.task[a].pc = "fetched"]
       \/ svc' = [svc EXCEPT !.task[a].requests = @ + 1,
                             !.task[a].failed = @ + 1,
                             !.task[a].waits = Append(@, Pow2(svc.task[a].attempt)),
                             !.task[a].pc = "sleep"]
    /\ UNCHANGED_engine /\ UNCHANGED db

\* line 81: asyncio.sleep returns, the loop goes on
Backoff(a) ==
    /\ svc.call = "run"
    /\ svc.task[a].pc = "sleep"
    /\ svc' = [svc EXCEPT !.task[a].attempt = @ + 1, !.task[a].pc = "fetch"]
    /\ UNCHANGED_engine /\ UNCHANGED db

\* lines 82-83: the loop is over, _fetch_page returns None
GiveUp(a) ==
    /\ svc.call = "run"
    /\ svc.task[a].pc = "fetch"
    /\ ~MoreAttempts(svc.task[a].attempt, svc.max_retries)
    /\ svc' = [svc EXCEPT !.task[a].html = NoPage, !.task[a].pc = "fetched"]
    /\ UNCHANGED_engine /\ UNCHANGED db

\* lines 154-157: scrape_area after _fetch_page
scrape_area(a) ==
    /\ svc.call = "run"
    /\ svc.task[a].pc = "fetched"
    /\ svc' = [svc EXCEPT
                 !.task[a].res = IF ~svc.task[a].html.ok \/ svc.task[a].html.text = ""
                                 THEN <<>> ELSE _parse_html(svc.task[a].html.text, a),
                 !.task[a].pc = "done"]
    /\ UNCHANGED_engine /\ UNCHANGED db

\* lines 164-168: gather has every result, run returns all_data
Gather ==
    /\ svc.call = "run"
    /\ ~svc.returned
    /\ \A a \in AreaSet : svc.task[a].pc = "done"
    /\ svc' = [svc EXCEPT !.returned = TRUE,
                           !.all_data = Extended([a \in AreaSet |-> svc.task[a].res],
                                                 Len(Areas))]
    /\ UNCHANGED_engine /\ UNCHANGED db

NextScrape ==
    \/ \E a \in AreaSet : Request(a)
    \/ \E a \in AreaSet : Backoff(a)
    \/ \E a \in AreaSet : GiveUp(a)
    \/ \E a \in AreaSet : scrape_area(a)
    \/ Gather

\* the event loop runs every task that can run
SpecScrape == InitScrape /\ [][NextScrape]_vars /\ WF_vars(NextScrape)

(***************************************************************************)
(* The claims.                                                             *)
(***************************************************************************)
\* the calendar dates present in a table
DatesOf(t) == {t[j].date.v : j \in {m \in 1..Len(t) : t[m].date.k = "date"}}
Returned(i) == pc[i] = "done"
Succeeded(i) == Returned(i) /\ "forecast" \in DOMAIN result[i]
Last(seq) == seq[Len(seq)]

\* C1: when the preprocessed table has fewer than lags + 30 distinct non-missing dates
\* the call returns a result holding only an error that names lags + 30, no model is
\* ever fitted and no forecast point produced; with at least lags + 30 distinct dates
\* the call does not return that error.
C1_InsufficientDates ==
    \A i \in Invocations :
        LET few == Cardinality(DatesOf(preprocess_data(df[i]))) < lags[i] + 30
        IN  /\ few => models_q[i] = <<>> /\ forecast_list[i] = <<>>
                      /\ pc[i] \in {"idle", "call", "check", "done"}
            /\ few /\ Returned(i) =>
                   /\ DOMAIN result[i] = {"error"}
                   /\ result[i].error.min_days = lags[i] + 30
            /\ ~few /\ Returned(i) => "error" \notin DOMAIN result[i]

\* C1 witness: an error returned for a table with at least lags + 30 usable rows, but
\* fewer distinct dates
C1_Witness ==
    \E i \in Invocations :
        /\ Returned(i) /\ "error" \in DOMAIN result[i]
        /\ Len(df_processed[i]) >= lags[i] + 30

\* the AQI of the rows of a preprocessed table, in the order of the code's date sort
ObservedAqi(t) == [j \in 1..Len(t) |-> sort_values_date(t)[j].aqi.v]
\* the point forecast of step k: the k-th value appended to the lag window
P50(i, k) == recent_aqi[i][lags[i] + k]
\* the AQI of the rows dated with the latest observed date
LatestDayAqi(t) ==
    {t[j].aqi.v : j \in {m \in 1..Len(t) :
        t[m].date.k = "date" /\ \A d \in DatesOf(t) : t[m].date.v >= d}}

\* C2: at step s, aqi_lag_j is the point forecast of step s - j when j < s and the
\* observed value o_(N - (j - s)) when j >= s; at step 1 aqi_lag_1 is the AQI of the
\* latest observed date and at step 2 it is the point forecast of step 1.
C2_RecursiveFeedback ==
    \A i \in Invocations :
        step[i] >= 1 =>
            LET s == step[i]
                o == ObservedAqi(df_processed[i])
            IN  /\ \A j \in 1..lags[i] :
                       row_feat[i].aqi_lag[j] =
                           IF j < s THEN P50(i, s - j) ELSE o[Len(o) - (j - s)]
                /\ s = 1 => row_feat[i].aqi_lag[1] \in LatestDayAqi(df_processed[i])
                /\ s = 2 => row_feat[i].aqi_lag[1] = P50(i, 1)

\* C2 without its clause on the latest observed date: the lag block follows the
\* code's sort order, in which a row without a date comes last
C2_LagBlockInSortOrder ==
    \A i \in Invocations :
        step[i] >= 1 =>
            \A j \in 1..lags[i] :
                row_feat[i].aqi_lag[j] =
                    IF j < step[i] THEN P50(i, step[i] - j)
                    ELSE ObservedAqi(df_processed[i])[Len(df_processed[i]) - (j - step[i])]

\* C3: a successful call returns exactly horizon points, in step order, the point of
\* step s dated lastDate + s: consecutive days, none of them an observed date.
C3_ForecastDates ==
    \A i \in Invocations :
        /\ Succeeded(i) => Len(result[i].forecast) = horizon[i]
                           /\ result[i].forecast = forecast_list[i]
        /\ Len(forecast_list[i]) = step[i]
        /\ \A s \in 1..Len(forecast_list[i]) :
               /\ \A d \in DatesOf(df_processed[i]) : forecast_list[i][s].date > d
               /\ \E d \in DatesOf(df_processed[i]) : forecast_list[i][s].date = d + s
               /\ s > 1 => forecast_list[i][s].date = forecast_list[i][s - 1].date + 1

\* C3 witness: a successful call with at least two points
C3_Witness ==
    \E i \in Invocations : Succeeded(i) /\ Len(result[i].forecast) >= 2

\* C4: every forecast point has aqi_p10 <= aqi_p50 <= aqi_p90.
C4_QuantilesOrdered ==
    \A i \in Invocations :
        \A s \in 1..Len(forecast_list[i]) :
            /\ forecast_list[i][s].aqi_p10 <= forecast_list[i][s].aqi_p50
            /\ forecast_list[i][s].aqi_p50 <= forecast_list[i][s].aqi_p90

\* C4 without the ordering the code does not enforce: what a point does guarantee is
\* that its three values are predictions rounded to two decimals
C4_PointsAreRoundedPredictions ==
    \A i \in Invocations :
        step[i] >= 1 =>
            \A key \in {"aqi_p10", "aqi_p50", "aqi_p90"} :
                \E q \in DOMAIN preds[i] : Last(forecast_list[i])[key] = round2(preds[i][q])

\* C5: the confidence of a step lies in [0, 1] and is max(0, min(1, 1 - (p90 - p10)/120)):
\* 1 when p90 - p10 <= 0, 0 when p90 - p10 >= 120, 1 - (p90 - p10)/120 in between
\* (120000 stands for 1.0; the point carries this value rounded to three decimals).
C5_Confidence ==
    fn_ret # Unset =>
        LET pr == fn_args.preds
            p50 == IF 50 \in DOMAIN pr THEN pr[50] ELSE pr[fn_args.quantiles[1]]
            p10 == IF 10 \in DOMAIN pr THEN pr[10] ELSE p50
            p90 == IF 90 \in DOMAIN pr THEN pr[90] ELSE p50
            d == p90 - p10
            c == fn_ret.confidence
            e == fn_ret.point.confidence
        IN  /\ c >= 0 /\ c <= 120000
            /\ d <= 0 => c = 120000
            /\ d >= 120000 => c = 0
            /\ (d > 0 /\ d < 120000) => c = 120000 - d
            /\ e \in 0..1000
            /\ 120 * e - c <= 60 /\ c - 120 * e <= 60

\* C5 witness: a step whose interval is strictly between 0 and 120 wide
C5_Witness ==
    /\ fn_ret # Unset
    /\ fn_args.quantiles = <<10, 90>>
    /\ fn_args.preds[90] - fn_args.preds[10] = 60000
    /\ fn_ret.point.confidence = 500

\* the max_temp / min_temp / wind_speed of the rows of the latest observed date
LatestDayMeteo(t) ==
    {[max_temp |-> t[j].max_temp.v, min_temp |-> t[j].min_temp.v,
      wind_speed |-> t[j].wind_speed.v] : j \in {m \in 1..Len(t) :
        t[m].date.k = "date" /\ \A d \in DatesOf(t) : t[m].date.v >= d}}
MeteoKeys == {"max_temp", "min_temp", "wind_speed"}

\* C6: at step s the three meteorological features come from element s of the future
\* list exactly when the list is supplied and has at least s elements (read here: each
\* value the element holds); otherwise they are those of the most recent observed day.
C6_FutureMeteo ==
    \A i \in Invocations :
        step[i] >= 1 =>
            LET f == future_meteo_7d[i]
                x == row_feat[i]
            IN  IF f.given /\ Len(f.list) >= step[i]
                THEN \A key \in MeteoKeys \cap DOMAIN f.list[step[i]] :
                         x[key] = f.list[step[i]][key]
                ELSE [max_temp |-> x.max_temp, min_temp |-> x.min_temp,
                      wind_speed |-> x.wind_speed] \in LatestDayMeteo(df_processed[i])

\* C6 as the code has it: the persisted values are those of the last row of the code's
\* date sort (a row without a date when there is one), also for a key the element lacks
C6_FutureMeteoInSortOrder ==
    \A i \in Invocations :
        step[i] >= 1 =>
            LET f == future_meteo_7d[i]
                lastRow == sort_values_date(df_processed[i])[Len(df_processed[i])]
            IN  \A key \in MeteoKeys :
                    row_feat[i][key] =
                        IF f.given /\ Len(f.list) >= step[i] /\ key \in DOMAIN f.list[step[i]]
                        THEN f.list[step[i]][key] ELSE lastRow[key].v

\* C7: at every step the value appended to recent_aqi, reported (rounded) as aqi_p50,
\* is the prediction of the q = 0.5 model when 0.5 is requested and otherwise that of
\* the first requested quantile; one value is appended per step.
C7_PointForecast ==
    \A i \in Invocations :
        /\ pc[i] = "loop" => Len(recent_aqi[i]) = lags[i] + step[i]
        /\ step[i] >= 1 =>
               LET q == IF \E j \in 1..Len(quantiles[i]) : quantiles[i][j] = 50
                        THEN 50 ELSE quantiles[i][1]
                   p == lgbm[<<models_q[i][q], row_feat[i]>>]
               IN  /\ models_q[i][q].alpha = q
                   /\ Last(recent_aqi[i]) = p
                   /\ Last(forecast_list[i]).aqi_p50 = 10 * RoundHalfEven(p, 10)

\* C7 witness: 0.5 is not requested and the first quantile's prediction, which differs
\* from the other's, has been appended
C7_Witness ==
    \E i \in Invocations :
        /\ step[i] >= 1
        /\ quantiles[i] = <<90, 10>>
        /\ preds[i][90] # preds[i][10]
        /\ Last(recent_aqi[i]) = preds[i][90]

Ended(i) == pc[i] \in {"done", "raised"}

C9_NoException == \A i \in Invocations : pc[i] # "raised"

\* the place of a level among the six categories, 0 for the unknown one
LevelRank(d) == IF d.level = UnknownLevel.level THEN 0
                ELSE CHOOSE n \in 1..Len(Levels) : Levels[n] = d.level
BoundaryCases == <<<<50, 1>>, <<51, 2>>, <<100, 2>>, <<101, 3>>, <<150, 3>>, <<151, 4>>,
                   <<200, 4>>, <<201, 5>>, <<300, 5>>, <<301, 6>>>>

\* C10: every integer AQI maps to exactly one of the six ordered categories with the
\* inclusive upper bounds 50, 100, 150, 200, 300; None / NaN maps to the unknown
\* category with the neutral colour; the category never decreases as the AQI increases.
C10_LevelBuckets ==
    fn_ret # Unset =>
        IF isna(fn_args.aqi)
        THEN fn_ret.level = "weizhi" /\ fn_ret.color = "#9e9e9e"
        ELSE fn_args.aqi.v % 1000 = 0 =>
               LET v == fn_args.aqi.v \div 1000
                   n == 1 + Cardinality({b \in {50, 100, 150, 200, 300} : v > b})
               IN  /\ fn_ret.level = Levels[n] /\ fn_ret.color = Colors[n]
                   /\ \A m \in 1..Len(BoundaryCases) :
                          v = BoundaryCases[m][1] => LevelRank(fn_ret) = BoundaryCases[m][2]
                   /\ LevelRank(_aqi_level_details(Num(fn_args.aqi.v + 1000)))
                          >= LevelRank(fn_ret)

\* C10 witness: 300 has been classified in the fifth category
C10_Witness ==
    /\ fn_ret # Unset
    /\ fn_args.aqi = Num(300000)
    /\ fn_ret.level = Levels[5]

BuiltSupervised == fn_args.fn = "_build_supervised_dataset" /\ fn_ret # Unset

\* C11: _build_supervised_dataset on a preprocessed table of N rows with lag count L
\* drops exactly the first L rows and the last row of the date-ascending order: the
\* output has N - L - 1 rows (0 when N <= L + 1), row k of it being row L + k of the
\* sorted table, and its index is 0..N-L-2.
C11_DropsBoundaryRowsOnly ==
    BuiltSupervised =>
        LET N == Len(fn_args.df)
            L == fn_args.lags
            sorted == sort_values_date(fn_args.df)
            out == fn_ret.table
        IN  /\ Len(out) = Max(0, N - L - 1)
            /\ \A k \in 1..Len(out) :
                   /\ out[k].aqi = sorted[L + k].aqi.v
                   /\ out[k].index = k - 1

\* C11 as the code has it: besides the first L rows and the last one, dropna() drops
\* every row whose date or weather is missing; the index is contiguous from 0
C11_DropsEveryIncompleteRow ==
    BuiltSupervised =>
        LET N == Len(fn_args.df)
            L == fn_args.lags
            sorted == sort_values_date(fn_args.df)
            full == {p \in (L + 1)..(N - 1) :
                        sorted[p].date.k = "date" /\ sorted[p].weather.isstr}
            out == fn_ret.table
        IN  /\ Len(out) = Cardinality(full)
            /\ {out[k].aqi : k \in 1..Len(out)} = {sorted[p].aqi.v : p \in full}
            /\ \A k \in 1..Len(out) : out[k].index = k - 1

\* the place in the date-ascending order of the row an output row was made from
\* (the AQI of the rows of a series are all different)
PlaceOf(sorted, r) == CHOOSE p \in 1..Len(sorted) : sorted[p].aqi.v = r.aqi

\* C12: in every output row aqi_lag_i is the aqi of the row i places earlier in the
\* date-ascending row order and aqi_next that of the row one place later, whatever
\* the calendar distance between the rows.
C12_LagsByRowPosition ==
    BuiltSupervised =>
        LET sorted == sort_values_date(fn_args.df)
            out == fn_ret.table
        IN  /\ \A p \in 1..(Len(sorted) - 1) :
                   ~DateBefore(sorted[p + 1].date, sorted[p].date)
            /\ \A k \in 1..Len(out) :
                   LET p == PlaceOf(sorted, out[k])
                   IN  /\ \E q \in 1..Len(sorted) : sorted[q].aqi.v = out[k].aqi
                       /\ DOMAIN out[k].aqi_lag = 1..fn_args.lags
                       /\ \A j \in 1..fn_args.lags :
                              p - j >= 1 /\ out[k].aqi_lag[j] = sorted[p - j].aqi.v
                       /\ p + 1 <= Len(sorted) /\ out[k].aqi_next = sorted[p + 1].aqi.v

\* C12 witness: an output row whose aqi_lag_1 comes from a row two calendar days
\* earlier and whose aqi_lag_2 comes from a row of that same earlier day
C12_Witness ==
    /\ BuiltSupervised
    /\ fn_args.lags = 2
    /\ \E k \in 1..Len(fn_ret.table) :
           LET sorted == sort_values_date(fn_args.df)
               p == PlaceOf(sorted, fn_ret.table[k])
           IN  /\ sorted[p].date.v = 4
               /\ sorted[p - 1].date.v = 2 /\ sorted[p - 2].date.v = 2
               /\ fn_ret.table[k].aqi_lag[1] = sorted[p - 1].aqi.v

Preprocessed == fn_args.fn = "preprocess_data" /\ fn_ret # Unset
\* a cell that is present and that pd.to_numeric can coerce
NumericCell(c) == c.k \in {"num", "numstr"}
\* a wind text that is a string with at least one digit in it
HasDigit(w) ==
    w.isstr /\ \E j \in 1..Len(w.s) :
                   w.s[j] \in {"0", "1", "2", "3", "4", "5", "6", "7", "8", "9"}
UsableRow(r) ==
    NumericCell(r.max_temp) /\ NumericCell(r.min_temp) /\ NumericCell(r.aqi)
    /\ HasDigit(r.wind)

\* C13: preprocess_data returns the usable rows of its input, in input order: a row
\* is kept iff max_temp, min_temp and aqi are present and numeric-coercible and wind
\* is a string with a digit run; every kept row has numeric max_temp, min_temp,
\* wind_speed and aqi; a row with a non-string weather or an unparseable date is kept
\* (weather_simple the "unknown" sentinel, date missing).
C13_KeepsUsableRowsInOrder ==
    Preprocessed =>
        LET in == fn_args.df
            out == fn_ret.table
            usable == SelectSeq([j \in 1..Len(in) |-> j], LAMBDA j : UsableRow(in[j]))
        IN  /\ Len(out) = Len(usable)
            /\ \A k \in 1..Len(out) :
                   LET r == in[usable[k]]
                   IN  /\ out[k].wind = r.wind /\ out[k].weather = r.weather
                       /\ out[k].max_temp = Num(r.max_temp.v)
                       /\ out[k].min_temp = Num(r.min_temp.v)
                       /\ out[k].aqi = Num(r.aqi.v)
                       /\ out[k].wind_speed.k = "num"
                       /\ ~r.weather.isstr => out[k].weather_simple = Str(<<"wei", "zhi">>)
                       /\ out[k].date = IF r.date.k = "date" THEN r.date ELSE NaT

\* C13 witness: of three rows the middle one was dropped; the kept ones are a row
\* without weather and a row whose date cannot be parsed
C13_Witness ==
    /\ Preprocessed
    /\ Len(fn_args.df) = 3 /\ Len(fn_ret.table) = 2
    /\ ~UsableRow(fn_args.df[2])
    /\ ~fn_ret.table[1].weather.isstr /\ fn_ret.table[1].aqi = Num(58000)
    /\ fn_ret.table[2].date = NaT

\* C14: preprocess_data is idempotent: applied to its own output it returns the same
\* rows, in the same order, with the same column values.
C14_Idempotent ==
    (fn_args.fn = "preprocess_data" /\ fn_ret # Unset /\ "again" \in DOMAIN fn_ret)
        => fn_ret.again = fn_ret.table

\* C14 witness: the second pass has run on a table from which the first pass dropped
\* a row and in which it coerced a numeric string and set a date to missing
C14_Witness ==
    /\ fn_args.fn = "preprocess_data" /\ fn_ret # Unset /\ "again" \in DOMAIN fn_ret
    /\ Len(fn_args.df) = 3 /\ Len(fn_ret.again) = 2
    /\ fn_args.df[1].min_temp.k = "numstr" /\ fn_ret.again[1].min_temp.k = "num"
    /\ fn_ret.again[2].date = NaT

Extracted == fn_args.fn = "_extract_wind_speed_and_direction" /\ fn_ret # Unset
DigitChars == {"0", "1", "2", "3", "4", "5", "6", "7", "8", "9"}
RECURSIVE Pow10(_)
Pow10(n) == IF n = 0 THEN 1 ELSE 10 * Pow10(n - 1)
\* the decimal value of the digits at places lo..hi of s
RECURSIVE DecimalValue(_, _, _)
DecimalValue(s, lo, hi) ==
    IF lo > hi THEN 0
    ELSE DigitValue(s[lo]) * Pow10(hi - lo) + DecimalValue(s, lo + 1, hi)
Spaces(n) == [j \in 1..n |-> " "]

\* C16: a non-string yields (null, null); a string yields force = the integer value
\* of the first run of digits anywhere in it (null without a digit) and direction =
\* the string with every digit and the unit suffix removed and the surrounding
\* whitespace trimmed; <direction><digits><unit> gives back the digit run and the
\* direction.
C16_ExtractWind ==
    Extracted =>
        IF ~fn_args.wind_str.isstr
        THEN fn_ret.speed = None /\ fn_ret.direction = NotStr
        ELSE LET s == fn_args.wind_str.s
                 digits == {j \in 1..Len(s) : s[j] \in DigitChars}
                 rest == SelectSeq(s, LAMBDA ch : ch \notin DigitChars /\ ch # "ji")
                 d == fn_ret.direction.s
             IN  /\ digits = {} => fn_ret.speed = None
                 /\ digits # {} =>
                        \E lo, hi \in digits :
                            /\ \A j \in digits : lo <= j
                            /\ \A j \in lo..hi : j \in digits
                            /\ (hi + 1) \notin digits
                            /\ fn_ret.speed = Num(DecimalValue(s, lo, hi))
                 /\ fn_ret.direction.isstr
                 /\ d # <<>> => d[1] # " " /\ d[Len(d)] # " "
                 /\ \E a, b \in 0..Len(rest) : rest = Spaces(a) \o d \o Spaces(b)
                 /\ \A n \in 0..Len(s) : \A m \in 1..(Len(s) - n - 1) :
                        (/\ Len(s) = n + m + 1
                         /\ \A j \in 1..n : s[j] = "N"
                         /\ \A j \in (n + 1)..(n + m) : s[j] \in DigitChars
                         /\ s[Len(s)] = "ji")
                        => /\ fn_ret.speed = Num(DecimalValue(s, n + 1, n + m))
                           /\ d = SubSeq(s, 1, n)

\* C16 witness: a text with two digit runs, spaces and the unit suffix: the force is
\* the first run alone, the direction what is left, trimmed
C16_Witness ==
    /\ Extracted
    /\ fn_args.wind_str = Str(<<" ", "3", "N", "1">>)
    /\ fn_ret.speed = Num(3)
    /\ fn_ret.direction = Str(<<"N">>)

WindAnalysed == fn_args.fn = "analyze_wind_vs_aqi" /\ fn_ret # Unset
\* the AQI of the rows of table t whose column col holds key, as a sequence
AqiWhere(t, col, key) ==
    LET rows == SelectSeq(t, LAMBDA r : r[col] = key)
    IN  [j \in 1..Len(rows) |-> rows[j].aqi.v]
\* x is the k-th smallest of the values of vals
IsKth(vals, x, k) ==
    /\ \E j \in 1..Len(vals) : vals[j] = x
    /\ Cardinality({j \in 1..Len(vals) : vals[j] < x}) <= k - 1
    /\ Cardinality({j \in 1..Len(vals) : vals[j] <= x}) >= k
\* the records of one list are those of the groups of more than 5 rows, each with the
\* count, mean and median of its group
GroupsEmitted(list, t, col) ==
    /\ \A a, b \in 1..Len(list) : a # b => list[a].key # list[b].key
    /\ {list[a].key : a \in 1..Len(list)} =
           {t[j][col] : j \in {m \in 1..Len(t) : Len(AqiWhere(t, col, t[m][col])) > 5}}
    /\ \A a \in 1..Len(list) :
           LET vals == AqiWhere(t, col, list[a].key)
               n == Len(vals)
               g == list[a]
           IN  /\ g.count = n /\ n > 5
               /\ g.mean.num * n = SumSeq(vals) * g.mean.den
               /\ \E lo, hi \in {vals[j] : j \in 1..n} :
                      /\ IsKth(vals, lo, (n + 1) \div 2)
                      /\ IsKth(vals, hi, (n \div 2) + 1)
                      /\ 2 * g.median.num = (lo + hi) * g.median.den

\* C17: each of the two lists holds exactly the groups of the preprocessed table with
\* more than 5 rows, each with the count, mean and median of its AQI; speed_analysis
\* is in strictly ascending wind_speed order, direction_analysis in non-increasing
\* order of mean; an empty preprocessed table yields two empty lists.
C17_WindGroups ==
    WindAnalysed =>
        LET t == preprocess_data(fn_args.df)
            sp == fn_ret.speed_analysis
            di == fn_ret.direction_analysis
        IN  /\ GroupsEmitted(sp, t, "wind_speed")
            /\ GroupsEmitted(di, t, "wind_direction")
            /\ \A a \in 1..(Len(sp) - 1) : sp[a].key.v < sp[a + 1].key.v
            /\ \A a \in 1..(Len(di) - 1) :
                   di[a].mean.num * di[a + 1].mean.den >= di[a + 1].mean.num * di[a].mean.den
            /\ t = <<>> => sp = <<>> /\ di = <<>>

\* C17 witness: a group of 5 rows left out, a group of 6 emitted with a median between
\* two values, two forces in ascending order, two directions by decreasing mean
C17_Witness ==
    /\ WindAnalysed
    /\ fn_args.df = WindTable(5, 6, 6, <<50000, 100000, 150000>>)
    /\ Len(fn_ret.speed_analysis) = 2
    /\ fn_ret.speed_analysis[1].key = Num(1) /\ fn_ret.speed_analysis[1].count = 6
    /\ fn_ret.speed_analysis[1].median = [num |-> 225000, den |-> 2]
    /\ fn_ret.speed_analysis[2].count = 11
    /\ Len(fn_ret.direction_analysis) = 2
    /\ fn_ret.direction_analysis[1].key = Str(<<"S", "F">>)

MultiAnalysed == fn_args.fn = "analyze_multi_factor_relationship" /\ fn_ret # Unset
\* the (temp_bin, wind_bin, weather_simple) cell of row j of a preprocessed table
CellOf(t, j) ==
    LET temps == {t[m].max_temp.v : m \in 1..Len(t)}
        lowest == CHOOSE x \in temps : \A y \in temps : x <= y
        highest == CHOOSE x \in temps : \A y \in temps : x >= y
    IN  [temp_bin |-> TempLabels[temp_bin(t[j].max_temp.v, lowest, highest)],
         wind_bin |-> WindLabels[1 + Cardinality({e \in {2, 4, 6, 12} :
                                                    e < t[j].wind_speed.v})],
         weather_simple |-> t[j].weather_simple.s]
CellOfRecord(r) ==
    [temp_bin |-> r.temp_bin, wind_bin |-> r.wind_bin, weather_simple |-> r.weather_simple]
\* the number of rows of t with weather category c
Frequency(t, c) == Cardinality({j \in 1..Len(t) : t[j].weather_simple = c})
\* the rows that contribute when S are the retained categories
Contributing(t, S) ==
    {j \in 1..Len(t) : t[j].weather_simple \in S /\ t[j].wind_speed.v <= 12}

\* C18: at most 5*4*6 = 120 records are emitted, one per (temp_bin, wind_bin,
\* weather_simple) cell with at least one member row and none for a cell without
\* members; the aqi of a record is the arithmetic mean of its members' aqi; only rows
\* whose weather_simple is among the 6 most frequent categories and whose wind_speed
\* is within the bins contribute; an empty input yields an empty list.
C18_HeatmapCells ==
    MultiAnalysed =>
        LET t == preprocess_data(fn_args.df)
            out == fn_ret.out
            cats == {t[j].weather_simple : j \in 1..Len(t)}
        IN  /\ Len(out) <= 5 * 4 * 6
            /\ \A a, b \in 1..Len(out) : a # b => CellOfRecord(out[a]) # CellOfRecord(out[b])
            /\ t = <<>> => out = <<>>
            /\ fn_args.df = <<>> => out = <<>>
            /\ \E S \in SUBSET cats :
                   /\ Cardinality(S) <= 6
                   /\ Cardinality(S) = 6 \/ S = cats
                   /\ \A c \in S : \A d \in cats \ S : Frequency(t, c) >= Frequency(t, d)
                   /\ \A j \in Contributing(t, S) :
                          \E a \in 1..Len(out) : CellOfRecord(out[a]) = CellOf(t, j)
                   /\ \A a \in 1..Len(out) :
                          LET members == SelectSeq([j \in 1..Len(t) |-> j], LAMBDA j :
                                  j \in Contributing(t, S)
                                  /\ CellOf(t, j) = CellOfRecord(out[a]))
                              total == SumSeq([m \in 1..Len(members) |-> t[members[m]].aqi.v])
                          IN  /\ Len(members) >= 1
                              /\ out[a].aqi.num * Len(members) = total * out[a].aqi.den

\* C18 witness: nine rows of seven weather categories; the two rows of one category
\* share a cell and give one record with their mean; a most frequent category whose
\* rows all have a wind force above 12 gives no record
C18_Witness ==
    /\ MultiAnalysed
    /\ Len(fn_args.df) = 9
    /\ Cardinality({fn_args.df[j].weather : j \in 1..9}) = 7
    /\ Len(fn_ret.out) = 4
    /\ \E a \in 1..4 : /\ fn_ret.out[a].weather_simple = <<"W", "7">>
                        /\ fn_ret.out[a].aqi = [num |-> 170000, den |-> 2]
    /\ \A a \in 1..4 : fn_ret.out[a].weather_simple # <<"W", "1">>

Trained == fn_args.fn = "train_aqi_prediction_model" /\ fn_ret # Unset

\* C19: with fewer than 30 rows after preprocessing the call returns a result holding
\* only an error and fits no model; with 30 or more it fits the model on the training
\* partition only and returns one (actual, predicted) pair for every held-out row,
\* the two lists having the same length.
C19_TrainGuardAndPairs ==
    Trained =>
        LET t == preprocess_data(fn_args.df)
            n == Len(t)
            res == fn_ret.result
        IN  /\ n < 30 => DOMAIN res = {"error"} /\ fn_ret.model = Unset
            /\ n >= 30 =>
                   LET actual == res.scatter_data.actual
                       predicted == res.scatter_data.predicted
                       heldOut == {j \in 1..n : \E m \in 1..Len(actual) :
                                                   actual[m] = t[j].aqi.v}
                   IN  /\ "error" \notin DOMAIN res
                       /\ fn_ret.model # Unset
                       /\ Len(actual) = Len(predicted)
                       /\ Len(actual) = Cardinality(heldOut)
                       /\ heldOut # {} /\ heldOut # 1..n
                       /\ \A m \in 1..Len(predicted) :
                              /\ predicted[m].model = fn_ret.model
                              /\ \E j \in heldOut :
                                     /\ actual[m] = t[j].aqi.v
                                     /\ predicted[m].x.max_temp = t[j].max_temp.v
                                     /\ predicted[m].x.min_temp = t[j].min_temp.v
                       /\ Len(fn_ret.model.y) = n - Cardinality(heldOut)
                       /\ Len(fn_ret.model.X) = Len(fn_ret.model.y)
                       /\ {fn_ret.model.y[m] : m \in 1..Len(fn_ret.model.y)} =
                              {t[j].aqi.v : j \in (1..n) \ heldOut}

\* C19 witness: 34 raw rows of which 30 are usable: a model fitted on 24 rows and six
\* pairs returned
C19_Witness ==
    /\ Trained
    /\ Len(fn_args.df) = 34
    /\ "scatter_data" \in DOMAIN fn_ret.result
    /\ Len(fn_ret.result.scatter_data.actual) = 6
    /\ Len(fn_ret.model.y) = 24
    /\ fn_ret.result.scatter_data.actual[1] # 80000

\* C19 witness of the guard: 33 raw rows of which 29 are usable give the error
C19_WitnessInsufficient ==
    /\ Trained
    /\ Len(fn_args.df) = 33
    /\ "error" \in DOMAIN fn_ret.result

\* C15: no engine operation modifies what the caller passed: across every step of
\* preprocess_data, train_aqi_prediction_model, analyze_wind_vs_aqi,
\* analyze_multi_factor_relationship, _build_supervised_dataset and
\* forecast_aqi_7_days the caller's table keeps its rows, their order, columns and
\* values (for _build_supervised_dataset inside a forecast the caller's table is
\* df_processed), and a supplied future list is unchanged.
C15_CallerDataUntouched ==
    [][/\ df' = df
       /\ future_meteo_7d' = future_meteo_7d
       /\ fn_args' = fn_args
       /\ \A i \in Invocations :
              (pc[i] = "check" /\ pc'[i] = "fit") => df_processed'[i] = df_processed[i]]_vars

\* C15 witness: a forecast has been returned for a table that preprocessing had to
\* rework (its rows were not in date order and lacked the derived columns), with a
\* future list supplied
C15_Witness ==
    \E i \in Invocations :
        /\ Succeeded(i)
        /\ future_meteo_7d[i] = FutureList(<<FullMeteo(1)>>)
        /\ df[i] = Reverse(Clean(lags[i] + 30))
        /\ sort_values_date(df_processed[i]) # df_processed[i]

\* the answer of LightGBM to a question, -1 while the question has never been asked
Answer(model, x) ==
    IF <<model, x>> \in DOMAIN lgbm THEN lgbm[<<model, x>>] ELSE 0 - 1
\* what a call with arguments (t, L, h, qs, f) computes when nothing else runs, as a
\* function of LightGBM: the lag window after k steps and the predictions of step k
RECURSIVE AloneWindow(_, _, _, _, _)
AlonePreds(t, L, qs, f, k) ==
    LET processed == preprocess_data(t)
        table == _build_supervised_dataset(processed, L)
        last == sort_values_date(processed)[Len(processed)]
        x == RowFeat(AloneWindow(t, L, qs, f, k - 1), L, f, k,
                     [max_temp |-> last.max_temp.v, min_temp |-> last.min_temp.v,
                      wind_speed |-> last.wind_speed.v],
                     date_max(processed) + k)
    IN  [q \in {qs[j] : j \in 1..Len(qs)} |->
            Answer(LGBMFit(q, 42, FeatureTable(table), LabelColumn(table)), x)]
AloneWindow(t, L, qs, f, k) ==
    IF k = 0 THEN RecentAqi(preprocess_data(t), L)
    ELSE Append(AloneWindow(t, L, qs, f, k - 1),
                PointForecast(AlonePreds(t, L, qs, f, k), qs))
AloneOutcome(t, L, h, qs, f) ==
    LET processed == preprocess_data(t)
        table == _build_supervised_dataset(processed, L)
    IN  IF date_nunique(processed) < L + 30
        THEN [pc |-> "done",
              result |-> [error |-> [msg |-> "insufficient dates", min_days |-> L + 30]]]
        ELSE IF table = <<>> THEN [pc |-> "raised", result |-> Unset]
        ELSE [pc |-> "done",
              result |-> [forecast |-> [k \in 1..h |->
                              ForecastPoint(date_max(processed) + k,
                                            AlonePreds(t, L, qs, f, k), qs)],
                          model_info |-> [train_samples |-> Len(table), lags |-> L,
                                          quantiles |-> qs, note |-> "persistence"]]]

\* C20: engine invocations are isolated: however the steps of two invocations on
\* different tables are interleaved (one wholly after the other included), each ends
\* with the result it computes when it runs alone on its own arguments; nothing one
\* invocation wrote is read by the other.
C20_Isolated ==
    \A i \in Invocations :
        Ended(i) =>
            LET alone == AloneOutcome(df[i], lags[i], horizon[i], quantiles[i],
                                      future_meteo_7d[i])
            IN  pc[i] = alone.pc /\ result[i] = alone.result

\* C20 witness: both invocations returned a forecast, the second having fitted its
\* model and filled its lag window while the first was still in its loop
C20_Witness ==
    /\ Succeeded(1) /\ Succeeded(2)
    /\ df[1] # df[2]
    /\ recent_aqi[1][1] # recent_aqi[2][1]
    /\ result[1].forecast[1].aqi_p50 # result[2].forecast[1].aqi_p50

QuantileSet(i) == {quantiles[i][j] : j \in 1..Len(quantiles[i])}

\* C21: one model per requested quantile is trained, all on the same supervised
\* table, and all before step 1; during the loop no model is retrained or replaced,
\* the steps run in order 1..horizon, the feature vector of step s + 1 is built after
\* the point forecast of step s has been appended (it is its aqi_lag_1), and at each
\* step every model is queried with the same single feature vector.
C21_TrainThenLoop ==
    [][\A i \in Invocations :
          /\ models_q'[i] # models_q[i] =>
                 /\ pc[i] = "fit" /\ step[i] = 0 /\ forecast_list[i] = <<>>
                 /\ \E q \in QuantileSet(i) \ DOMAIN models_q[i] :
                        /\ DOMAIN models_q'[i] = DOMAIN models_q[i] \cup {q}
                        /\ \A r \in DOMAIN models_q[i] : models_q'[i][r] = models_q[i][r]
          /\ step'[i] # step[i] =>
                 /\ step'[i] = step[i] + 1 /\ step'[i] <= horizon[i]
                 /\ models_q'[i] = models_q[i]
                 /\ DOMAIN models_q[i] = QuantileSet(i)
                 /\ \A q \in QuantileSet(i) :
                        /\ models_q[i][q].alpha = q
                        /\ models_q[i][q].X = FeatureTable(ds[i])
                        /\ models_q[i][q].y = LabelColumn(ds[i])
                        /\ preds'[i][q] = lgbm'[<<models_q[i][q], row_feat'[i]>>]
                 /\ DOMAIN preds'[i] = QuantileSet(i)
                 /\ Len(recent_aqi'[i]) = Len(recent_aqi[i]) + 1
                 /\ step[i] >= 1 =>
                        /\ Last(recent_aqi[i]) =
                               (IF 50 \in DOMAIN preds[i] THEN preds[i][50]
                                ELSE preds[i][quantiles[i][1]])
                        /\ row_feat'[i].aqi_lag[1] = Last(recent_aqi[i])
          /\ Succeeded(i) => step[i] = horizon[i] /\ DOMAIN models_q[i] = QuantileSet(i)]_vars

\* C21 witness: three models were trained and the second step of the loop has run
C21_Witness ==
    \E i \in Invocations :
        /\ step[i] = 2
        /\ Cardinality(DOMAIN models_q[i]) = 3
        /\ row_feat[i].aqi_lag[1] = preds[i][50]

\* C27: whenever the precondition check passes (at least L + 30 distinct dates in the
\* preprocessed input) the supervised table has at least 29 rows: training never runs
\* on an empty table and the reported train_samples is >= 29.
C27_TrainingTableNotEmpty ==
    \A i \in Invocations :
        /\ pc[i] \in {"fit", "loop", "raised"} => Len(ds[i]) >= 29
        /\ pc[i] # "raised"
        /\ Succeeded(i) => result[i].model_info.train_samples >= 29

\* C27 as the code has it: the table has one row for each place L+1..N-1 of the date
\* sort whose date and weather are present, which can be none
C27_TrainingTableOfCompleteRows ==
    \A i \in Invocations :
        pc[i] \in {"fit", "loop", "raised"} =>
            LET sorted == sort_values_date(df_processed[i])
            IN  Len(ds[i]) = Cardinality({p \in (lags[i] + 1)..(Len(sorted) - 1) :
                                   sorted[p].date.k = "date" /\ sorted[p].weather.isstr})

\* C29: _aqi_level_details buckets the round-half-to-even integer of its input: the
\* category is the one whose upper bound is the first not below that integer; a value
\* exactly half-way above a boundary (50.5, 100.5, 150.5, 200.5, 300.5) is in the
\* lower category, a value above boundary + 0.5 in the higher one.
C29_HalfEvenBuckets ==
    (fn_ret # Unset /\ ~isna(fn_args.aqi)) =>
        LET x == fn_args.aqi.v
            bounds == <<50, 100, 150, 200, 300>>
        IN  /\ \E n \in (0 - 3)..(MaxAqi + 1) :
                   /\ 1000 * n - x <= 500 /\ x - 1000 * n <= 500
                   /\ (1000 * n - x = 500 \/ x - 1000 * n = 500) => n % 2 = 0
                   /\ fn_ret.level =
                          Levels[1 + Cardinality({m \in 1..5 : n > bounds[m]})]
            /\ \A m \in 1..5 :
                   /\ x = 1000 * bounds[m] + 500 => fn_ret.level = Levels[m]
                   /\ (x > 1000 * bounds[m] + 500
                        /\ (m < 5 => x <= 1000 * bounds[m + 1])) => fn_ret.level = Levels[m + 1]

\* C29 witness: 100.5 has been classified in the second category
C29_Witness ==
    /\ fn_ret # Unset
    /\ fn_args.aqi = Num(100500)
    /\ fn_ret.level = Levels[2]

\* C22: after a completed history_add of user u, u has at most 30 search-history rows,
\* every row of u that was deleted is no more recent than any row of u that was kept,
\* the row just added is among the kept ones, and the rows of the other users are
\* the same as before.
C22_HistoryCapped ==
    [][LET u == svc'.user
           before == db.search_history
           after == db'.search_history
           mine == HistoryOf(before, u) \cup {svc'.item}
       IN  /\ Cardinality(HistoryOf(after, u)) <= HistoryCap
           /\ HistoryOf(after, u) \subseteq mine
           /\ \A d \in mine \ after, k \in HistoryOf(after, u) :
                d.searched_at <= k.searched_at
           /\ svc'.item \in after
           /\ after \ HistoryOf(after, u) = before \ HistoryOf(before, u)]_vars

\* C22, what the code guarantees: all of the above except that the row just added is
\* kept; it is kept whenever fewer than 31 of the user's rows share its second.
C22_HistoryCappedUpToTies ==
    [][LET u == svc'.user
           before == db.search_history
           after == db'.search_history
           mine == HistoryOf(before, u) \cup {svc'.item}
           tied == {r \in mine : r.searched_at = svc'.item.searched_at}
       IN  /\ Cardinality(HistoryOf(after, u)) <= HistoryCap
           /\ HistoryOf(after, u) \subseteq mine
           /\ \A d \in mine \ after, k \in HistoryOf(after, u) :
                d.searched_at <= k.searched_at
           /\ Cardinality(tied) <= HistoryCap => svc'.item \in after
           /\ after \ HistoryOf(after, u) = before \ HistoryOf(before, u)]_vars

\* C23: a toggle with a valid type deletes the row of (user, area, type) and answers
\* active = false when there is one, creates it and answers active = true otherwise;
\* afterwards no key has two rows, the count answered is the number of rows of
\* (area, type) over all users, every row of another user, area or type is as before,
\* and toggling the key of the previous toggle again brings back the keys present
\* before that one; a toggle with an invalid type answers 400 and changes no row.
C23_ToggleOne ==
    [][LET before == db.social_interactions
           after == db'.social_interactions
           key == svc'.key
           mine == {r \in before : <<r.user_id, r.area, r.interaction_type>> = key}
           created == {r \in after : <<r.user_id, r.area, r.interaction_type>> = key}
       IN  IF svc'.response.status = 400
           THEN /\ PayloadText(svc'.type, <<>>) \notin InteractionTypes
                /\ after = before
           ELSE /\ key[3] \in InteractionTypes
                /\ key = <<svc'.user, PayloadText(svc'.area, DefaultArea),
                           PayloadText(svc'.type, <<>>)>>
                /\ mine # {} => created = {} /\ svc'.response.active = FALSE
                /\ mine = {} => Cardinality(created) = 1 /\ svc'.response.active = TRUE
                /\ after \ created = before \ mine
                /\ \A r1 \in after, r2 \in after :
                     <<r1.user_id, r1.area, r1.interaction_type>>
                         = <<r2.user_id, r2.area, r2.interaction_type>> => r1 = r2
                /\ svc'.response.count
                     = Cardinality({r \in after : r.area = key[2]
                                                  /\ r.interaction_type = key[3]})
                /\ svc.key = key => KeysOf(after) = svc.keys_before]_vars

\* C23 witness: the third request creates the like of an area that the other user
\* likes already, so the count answered is 2
C23_Witness ==
    /\ svc.call = "social_toggle"
    /\ svc.response.status = 200
    /\ svc.response.active
    /\ svc.response.count = 2
    /\ svc.toggles = MaxToggles

\* C23 witness of the other cases: a row deleted by a toggle, and a rejected type
C23_WitnessOff ==
    /\ svc.call = "social_toggle"
    /\ svc.response.status = 200
    /\ ~svc.response.active
    /\ svc.response.count = 1
C23_WitnessRejected ==
    /\ svc.call = "social_toggle"
    /\ svc.response.status = 400
    /\ db.social_interactions # {}

\* the table has at most one row per (area, date)
OneRowPerKey(rows) == \A r1 \in rows, r2 \in rows : KeyOf(r1) = KeyOf(r2) => r1 = r2
\* the keys of the rows a call found stored (none after a loader call that truncates)
StoredBefore == IF svc'.truncate THEN {} ELSE db.weather_data

\* C24: a save_data_to_db or load_data_to_db call on a table with at most one row per
\* (area, date) leaves at most one row per (area, date); no item whose key was stored
\* is inserted, the rows that were stored are unchanged, and the number returned is
\* the number of rows inserted.
C24_Deduplicated ==
    [][OneRowPerKey(db.weather_data) =>
          /\ OneRowPerKey(db'.weather_data)
          /\ StoredBefore \subseteq db'.weather_data
          /\ \A r \in db'.weather_data \ StoredBefore :
               KeyOf(r) \notin {KeyOf(o) : o \in StoredBefore}
          /\ svc'.ret = Cardinality(db'.weather_data \ StoredBefore)]_vars

\* C24, what the code guarantees: the same when no two items of the batch have the
\* same (area, date); with such items, everything but the uniqueness after the call.
C24_DeduplicatedAgainstStored ==
    [][LET data == svc'.data
           distinct == \A j \in 1..Len(data), m \in 1..Len(data) :
                          KeyOf(data[j]) = KeyOf(data[m]) => j = m
       IN  /\ OneRowPerKey(db.weather_data) /\ distinct => OneRowPerKey(db'.weather_data)
           /\ StoredBefore \subseteq db'.weather_data
           /\ \A r \in db'.weather_data \ StoredBefore :
                KeyOf(r) \notin {KeyOf(o) : o \in StoredBefore}
           /\ svc'.ret = Cardinality(db'.weather_data \ StoredBefore)]_vars

\* the Monday of the Monday-to-Sunday week of a date
MondayOf(d) == d - dayofweek(d)
\* the values of the rows of a table whose date has the given image under Week
MembersOf(t, Week(_), shown) ==
    LET at == SelectSeq([j \in 1..Len(t) |-> j], LAMBDA j : Week(t[j].date) = shown)
    IN  [j \in 1..Len(at) |-> t[at[j]].value]
\* the output has one group per image under Week of an input date, shown as that
\* image, made of the rows with that image, in ascending order
GroupedBy(t, out, Week(_)) ==
    /\ {out[j].date : j \in 1..Len(out)} = {Week(t[j].date) : j \in 1..Len(t)}
    /\ \A j \in 1..Len(out) : out[j].value = mean(MembersOf(t, Week, out[j].date))
    /\ \A j \in 1..Len(out), m \in 1..Len(out) : j < m => out[j].date < out[m].date

\* C25: with granularity "week" the groups of aggregate_series are the Monday-to-Sunday
\* weeks of the input dates (two dates are in one group exactly when they are in one
\* such week), each shown as its Monday, in ascending date order.
C25_NaturalWeeks ==
    (fn_ret # Unset /\ fn_args.fn = "aggregate_series" /\ fn_args.granularity = "week")
        => GroupedBy(fn_args.df, fn_ret.out, MondayOf)

\* C25, what the code guarantees: the groups are the Tuesday-to-Monday weeks, each shown
\* as its Tuesday, which is <= every member date and at most 6 days before it, ascending.
TuesdayOf(d) == MondayOf(d - 1) + 1
C25_TuesdayWeeks ==
    (fn_ret # Unset /\ fn_args.fn = "aggregate_series" /\ fn_args.granularity = "week")
        => /\ GroupedBy(fn_args.df, fn_ret.out, TuesdayOf)
           /\ \A j \in 1..Len(fn_args.df) :
                /\ TuesdayOf(fn_args.df[j].date) <= fn_args.df[j].date
                /\ fn_args.df[j].date - TuesdayOf(fn_args.df[j].date) <= 6

\* the sum of the absolute percentage errors of the points is at most bound
RECURSIVE ErrorsAtMost(_, _)
ErrorsAtMost(points, bound) ==
    IF points = <<>> THEN bound.num >= 0
    ELSE LET p == Head(points)
         IN  ErrorsAtMost(Tail(points),
                          [num |-> bound.num * p.real - Abs(p.real - p.pred) * bound.den,
                           den |-> bound.den * p.real])

\* C26: in every step of the backtest for a day d the forecast is made from the rows
\* dated <= d only; the step adds the point (d + 1, actual AQI of d + 1, forecast)
\* when the forecast is no error and day d + 1 has a row, and no point otherwise; the
\* result's pass flag is true exactly when there is a point and the mean absolute
\* percentage error of the points is <= threshold.
C26_WalkForward ==
    [][/\ (svc.pc = "loop" /\ svc'.pc = "loop") =>
            LET d == svc.d
                next == {r \in svc.rows : r.date = d + 1}
            IN  /\ \A r \in svc'.train : r.date <= d /\ r \in fn_args.df
                /\ IF svc'.res.kind = "error" \/ next = {}
                   THEN svc'.points = svc.points
                   ELSE /\ Len(svc'.points) = Len(svc.points) + 1
                        /\ \E r \in next :
                             svc'.points[Len(svc'.points)]
                                 = [date |-> d + 1, real |-> r.aqi.v,
                                    pred |-> svc'.res.aqi_p50]
       /\ (svc.pc = "loop" /\ svc'.pc = "done") =>
            /\ fn_ret'.points = svc.points
            /\ fn_ret'.pass <=>
                 /\ Len(svc.points) >= 1
                 /\ ErrorsAtMost(svc.points,
                                 [num |-> fn_args.threshold.num * Len(svc.points),
                                  den |-> fn_args.threshold.den])]_vars

\* C26 witness: a backtest that passed with points for MaxBacktest - 1 days, one day
\* having given no point
C26_Witness ==
    /\ fn_args.fn = "evaluate_forecast_error"
    /\ fn_ret # Unset
    /\ fn_ret.ok
    /\ fn_ret.pass
    /\ Len(fn_ret.points) = MaxBacktest - 1
    /\ \E j \in 1..Len(fn_ret.points) : fn_ret.points[j].real # fn_ret.points[j].pred

\* C26 witness of a failed backtest: points collected, the error above the threshold
C26_WitnessFailed ==
    /\ fn_args.fn = "evaluate_forecast_error"
    /\ fn_ret # Unset
    /\ fn_ret.ok
    /\ ~fn_ret.pass
    /\ Len(fn_ret.points) >= 2

\* no two rows of a table have the same date
OneRowPerDate(t) == \A j \in 1..Len(t), m \in 1..Len(t) : t[j].date = t[m].date => j = m
HandedToForecast == fn_ret # Unset /\ "df" \in DOMAIN fn_ret

\* C28: the weather_data table having at most one row per (area, date), the table that
\* GET /api/analysis/forecast_7d or POST /api/predict/aqi_7d hands to
\* forecast_aqi_7_days has at most one row per date, for a district and for a
\* city-wide name alike.
C28_OneRowPerDate ==
    (fn_args.fn \in {"analysis_forecast_7d", "predict_aqi_7d"} /\ HandedToForecast)
        => OneRowPerDate(fn_ret.df)

\* C28, what the code guarantees: one row per date from forecast_7d for every area, and
\* from predict/aqi_7d for a district.
C28_OneRowPerDateButCityWidePredict ==
    (/\ HandedToForecast
     /\ \/ fn_args.fn = "analysis_forecast_7d"
        \/ fn_args.fn = "predict_aqi_7d" /\ fn_args.area \notin CityAliases \cup {"", NoArea})
        => OneRowPerDate(fn_ret.df)

\* what holds of the task of area a at every moment of a run
FetchBounded(a) ==
    LET p == svc.task[a]
    IN  /\ p.requests <= svc.max_retries
        /\ Len(p.waits) = p.failed
        /\ \A j \in 1..Len(p.waits) : p.waits[j] = Pow2(j - 1)
        /\ p.html.ok => p.requests = p.failed + 1
        /\ ~p.html.ok => p.requests = p.failed
        /\ p.pc \in {"fetched", "done"} /\ ~p.html.ok => p.failed = svc.max_retries
        /\ p.pc = "done" /\ ~p.html.ok => p.res = <<>>
        /\ p.pc = "done" /\ p.html.ok => p.res = _parse_html(p.html.text, a)

\* C30: every task makes at most max_retries requests, stops at the first that is
\* answered and returns its body, returns null after max_retries failed ones, waits
\* 2^attempt seconds after the failed attempt number attempt (0, 1, ...); an area whose
\* page was not fetched yields the empty list, all_data is made of every area's own
\* rows, and the run ends.
C30_FetchTerminates ==
    /\ [](svc.call = "run" =>
            /\ \A a \in AreaSet : FetchBounded(a)
            /\ svc.returned =>
                 \A a \in AreaSet :
                    SelectSeq(svc.all_data, LAMBDA r : r.area = a) = svc.task[a].res)
    /\ <>(svc.call = "run" /\ svc.returned)

\* C30 witness: the run is over, one area gave up after MaxRetries failed requests and
\* waits of 1, 2, 4 seconds, the other was answered at its second request
C30_Witness ==
    /\ svc.call = "run"
    /\ svc.returned
    /\ svc.max_retries = MaxRetries
    /\ svc.task[Areas[1]].failed = MaxRetries
    /\ ~svc.task[Areas[1]].html.ok
    /\ svc.task[Areas[2]].requests = 2
    /\ svc.task[Areas[2]].html.ok
    /\ Len(svc.all_data) = 1

====
